------------------------ MODULE ApprovalStoreProofs ------------------------
(***************************************************************************)
(* The approval store, for any number of processes, challenges, approvals, *)
(* proposals and runs, any lifetimes and any bounds on the clock, the      *)
(* calls and the power losses: StoreInv is inductive.  The argument rests  *)
(* on two facts about files: a file that can be read is never written      *)
(* again, and one that is durable outlives whatever fails; everything a    *)
(* human or a run was told is then read off files of the second kind.      *)
(***************************************************************************)
EXTENDS ApprovalStore, TLAPS, FiniteSetTheorems

USE DEF store, local, history, bounds

-----------------------------------------------------------------------------

(* Names, records and calls. *)

LEMMA SlotFacts ==
  /\ \A x \in ChallengeIds : Challenge(x) \in Slots /\ Decision(x) \in Slots
  /\ \A a \in ApprovalIds : Approval(a) \in Slots /\ Terminal(a) \in Slots
  /\ \A x : Challenge(x)[1] = "challenge" /\ Challenge(x)[2] = x
  /\ \A x : Decision(x)[1] = "decision" /\ Decision(x)[2] = x
  /\ \A x : Approval(x)[1] = "approval" /\ Approval(x)[2] = x
  /\ \A x : Terminal(x)[1] = "terminal" /\ Terminal(x)[2] = x
  /\ \A s \in Slots :
       /\ s[2] \in ChallengeIds \cup ApprovalIds
       /\ \/ s[1] \in {"challenge", "decision"} /\ s[2] \in ChallengeIds
          \/ s[1] \in {"approval", "terminal"} /\ s[2] \in ApprovalIds
BY DEF Slots, Challenge, Decision, Approval, Terminal

\* A file of a kind is the one of its directory.
LEMMA SlotOfKind ==
  ASSUME NEW s \in Slots
  PROVE  /\ s[1] = "challenge" => s = Challenge(s[2])
         /\ s[1] = "decision" => s = Decision(s[2])
         /\ s[1] = "approval" => s = Approval(s[2])
         /\ s[1] = "terminal" => s = Terminal(s[2])
BY DEF Slots, Challenge, Decision, Approval, Terminal

LEMMA RecordTyped ==
  ASSUME NEW word \in Words, NEW p \in Proposals, NEW link \in SUBSET Links,
         NEW from \in Nat, NEW until \in Nat
  PROVE  /\ Record(word, p, link, from, until) \in Records
         /\ Record(word, p, link, from, until).word = word
         /\ Record(word, p, link, from, until).proposal = p
         /\ Record(word, p, link, from, until).link = link
         /\ Record(word, p, link, from, until).from = from
         /\ Record(word, p, link, from, until).until = until
BY DEF Record, Records

LEMMA SaysOne ==
  ASSUME NEW S, NEW b, S = {b}
  PROVE  (CHOOSE x \in S : TRUE) = b
OBVIOUS

LEMMA FileTyped ==
  ASSUME TypeOK
  PROVE  \A s \in Slots :
           /\ files[s] \in [there : BOOLEAN, good : BOOLEAN, synced : BOOLEAN,
                            linked : BOOLEAN, says : SUBSET Records]
           /\ files[s].says \subseteq Records
BY DEF TypeOK

\* What a readable file says.
LEMMA Readable ==
  ASSUME TypeOK, FilesInv, NEW s \in Slots, files[s].good
  PROVE  /\ Says(s) \in Records /\ files[s].says = {Says(s)} /\ Fits(s, Says(s))
         /\ files[s].there
<1>1. PICK b \in files[s].says : files[s].says = {b} /\ Fits(s, b)
  BY DEF FilesInv
<1>2. Says(s) = b
  BY <1>1, SaysOne DEF Says
<1>3. files[s].there
  BY DEF FilesInv, NoFile
<1> QED
  BY <1>1, <1>2, <1>3, FileTyped

LEMMA CallTyped ==
  ASSUME TypeOK, NEW c \in Callers
  PROVE  /\ call[c].op \in {"none", "create", "decide", "consume"}
         /\ call[c].op = "create" => call[c].proposal \in Proposals
         /\ call[c].op = "decide" =>
              /\ call[c].challenge \in ChallengeIds /\ call[c].proposal \in Proposals
              /\ call[c].verdict \in {"approve", "reject"}
         /\ call[c].op = "consume" =>
              /\ call[c].approval \in ApprovalIds /\ call[c].proposal \in Proposals
              /\ call[c].run \in Runs
<1>1. call[c] \in AllCalls
  BY DEF TypeOK
<1>2. CASE call[c] = NoCall
  BY <1>2 DEF NoCall
<1>3. CASE call[c] \in [op : {"create"}, proposal : Proposals]
  BY <1>3
<1>4. CASE call[c] \in [op : {"decide"}, challenge : ChallengeIds, proposal : Proposals,
                        verdict : {"approve", "reject"}]
  BY <1>4
<1>5. CASE call[c] \in [op : {"consume"}, approval : ApprovalIds, proposal : Proposals, run : Runs]
  BY <1>5
<1> QED
  BY <1>1, <1>2, <1>3, <1>4, <1>5 DEF AllCalls

-----------------------------------------------------------------------------

(* The moves of a caller, by what they do when they do not refuse. *)

Skips(c) ==
  /\ pc[c] = "scan"
  /\ \E x \in todo[c] : Decided(x) /\ todo' = [todo EXCEPT ![c] = @ \ {x}]
  /\ UNCHANGED <<store, lock, pc, call, now, work, clock, history, bounds>>

Expires(c) ==
  /\ pc[c] = "scan"
  /\ \E x \in todo[c] :
       /\ ChallengeLoads(x) /\ ~Decided(x)
       /\ todo' = [todo EXCEPT ![c] = @ \ {x}]
       /\ Turn(c, "open", Decision(x),
               DecisionRecord("expired", Says(Challenge(x)).proposal, {}, now[c]))
  /\ UNCHANGED <<store, lock, call, now, clock, history, bounds>>

Makes(c) ==
  /\ pc[c] = "scan" /\ todo[c] = {}
  /\ \E x \in (ChallengeIds \cap scene.ids) \ drawn :
       /\ drawn' = drawn \cup {x}
       /\ dirs' = [dirs EXCEPT ![x] = "made"]
       /\ Turn(c, "open", Challenge(x), ChallengeRecord(call[c].proposal, now[c]))
  /\ UNCHANGED <<files, lock, call, now, todo, clock, history, bounds>>

Rescans(c) ==
  /\ pc[c] = "written" /\ call[c].op = "create" /\ work[c].slot[1] = "decision"
  /\ Go(c, "scan")
  /\ UNCHANGED <<store, lock, local, clock, history, bounds>>

Rules(c) ==
  /\ pc[c] = "begin" /\ call[c].op = "decide" /\ Decidable(c)
  /\ \/ /\ drawn' = drawn
        /\ \E word \in {"expired", "rejected"} :
             Turn(c, "open", Decision(call[c].challenge),
                  DecisionRecord(word, call[c].proposal, {}, now[c]))
     \/ /\ call[c].verdict # "reject"
        /\ \E a \in (ApprovalIds \cap scene.ids) \ drawn :
             /\ drawn' = drawn \cup {a}
             /\ Turn(c, "open", Decision(call[c].challenge),
                     DecisionRecord("approved", call[c].proposal, {a}, now[c]))
  /\ UNCHANGED <<dirs, files, lock, call, now, todo, clock, history, bounds>>

\* What a caller has written.
Wrote(c) == CHOOSE b \in work[c].says : TRUE

Begins(c) ==
  /\ pc[c] = "written" /\ call[c].op = "decide" /\ Wrote(c).word = "approved"
  /\ \E a \in Wrote(c).link :
       /\ dirs' = [dirs EXCEPT ![a] = "made"]
       /\ Turn(c, "open", Approval(a),
               ApprovalRecord(call[c].proposal, call[c].challenge, now[c]))
  /\ UNCHANGED <<files, drawn, lock, call, now, todo, clock, history, bounds>>

Reports(c) ==
  /\ pc[c] = "written" /\ call[c].op = "decide"
  /\ \/ /\ Wrote(c).word = "granted"
        /\ told' = told \cup {[challenge |-> call[c].challenge, word |-> "approved",
                               link |-> {work[c].slot[2]}]}
     \/ /\ Wrote(c).word = "rejected"
        /\ told' = told \cup {[challenge |-> call[c].challenge, word |-> "rejected",
                               link |-> {}]}
  /\ Leave(c)
  /\ UNCHANGED <<store, clock, asked, uses, bounds>>

Claims(c) ==
  LET a == call[c].approval
  IN  /\ pc[c] = "begin" /\ call[c].op = "consume"
      /\ Consumable(a) /\ Says(Approval(a)).proposal = call[c].proposal
      /\ files' = [files EXCEPT ![Terminal(a)] = TornFile]
      /\ work' = [work EXCEPT ![c] = [slot |-> Terminal(a), says |-> {}]]
      /\ Go(c, "claimSync")
      /\ UNCHANGED <<dirs, drawn, lock, call, now, todo, clock, history, bounds>>

Stamps(c) ==
  LET says == Says(Approval(call[c].approval))
  IN  /\ pc[c] = "stamp"
      /\ \E word \in {"revoked", "expired", "consumed"} :
           /\ word = "consumed" => ~(clock < says.from) /\ ~(clock >= says.until)
           /\ Turn(c, "write", work[c].slot,
                   TerminalRecord(word, call[c].proposal,
                                  IF word = "consumed" THEN {call[c].run} ELSE {}, clock))
      /\ UNCHANGED <<store, lock, call, now, todo, clock, history, bounds>>

Uses(c) ==
  /\ pc[c] = "written" /\ call[c].op = "consume" /\ Wrote(c).word = "consumed"
  /\ uses' = Append(uses,
       [approval |-> call[c].approval, run |-> call[c].run,
        proposal |-> call[c].proposal, at |-> Wrote(c).from,
        challenge |-> Says(Approval(call[c].approval)).link])
  /\ Leave(c)
  /\ UNCHANGED <<store, clock, asked, told, bounds>>

\* The writing of a file, and the turns from one file to the next.
FileMoves(c) ==
  \/ OpenFile(c) \/ WriteFile(c) \/ SyncFile(c) \/ SyncClaim(c)
  \/ SyncDirectory(c) \/ SyncClaimDirectory(c) \/ SyncParent(c)

Turns(c) ==
  \/ StartCreate(c) \/ Skips(c) \/ Expires(c) \/ Makes(c) \/ Rescans(c) \/ Rules(c)
  \/ Begins(c) \/ Claims(c) \/ Stamps(c)

Ends(c) ==
  /\ pc[c] # "idle" /\ Leave(c)
  /\ Refuse(c) \/ Reports(c) \/ Uses(c)

Moves(c) == FileMoves(c) \/ Turns(c) \/ Ends(c)

LEMMA StepCases ==
  ASSUME NEW c \in Callers, Step(c) \/ Raise(c), TypeOK
  PROVE  Acquire(c) \/ Moves(c)
<1> USE DEF Moves
<1>1. CASE Acquire(c) \/ FileMoves(c) \/ StartCreate(c)
  BY <1>1 DEF Turns
<1>2. ASSUME pc[c] # "idle", Refuse(c) PROVE Ends(c)
  BY <1>2 DEF Ends, Refuse
<1>3. CASE Raise(c)
  BY <1>2, <1>3 DEF Raise
<1>4. CASE Scan(c)
  <2>1. PICK x \in todo[c] :
          /\ pc[c] = "scan"
          /\ IF ~ChallengeLoads(x) \/ (~Decided(x) /\ now[c] < Says(Challenge(x)).from)
             THEN Refuse(c)
             ELSE /\ todo' = [todo EXCEPT ![c] = @ \ {x}]
                  /\ IF Decided(x) THEN UNCHANGED <<pc, work>>
                     ELSE Turn(c, "open", Decision(x),
                               DecisionRecord("expired", Says(Challenge(x)).proposal, {}, now[c]))
                  /\ UNCHANGED <<store, lock, call, now, clock, history, bounds>>
    BY <1>4 DEF Scan
  <2> QED
    BY <1>2, <2>1 DEF Turns, Skips, Expires
<1>5. CASE MakeChallenge(c)
  BY <1>2, <1>5 DEF MakeChallenge, Turns, Makes
<1>6. CASE AfterCreateWrite(c)
  BY <1>2, <1>6 DEF AfterCreateWrite, Turns, Rescans
<1>7. CASE StartDecide(c)
  <2>1. CASE ~Decidable(c)
    BY <1>2, <1>7, <2>1 DEF StartDecide
  <2>2. CASE Decidable(c)
    BY <1>7, <2>2 DEF StartDecide, Turns, Rules
  <2> QED
    BY <2>1, <2>2
<1>8. CASE AfterDecideWrite(c)
  <2>1. CASE Wrote(c).word = "approved"
    BY <1>8, <2>1 DEF AfterDecideWrite, Turns, Begins, Wrote
  <2>2. CASE Wrote(c).word = "granted"
    BY <1>8, <2>2 DEF AfterDecideWrite, Tell, Ends, Reports, Wrote
  <2>3. CASE Wrote(c).word = "rejected"
    BY <1>8, <2>3 DEF AfterDecideWrite, Tell, Ends, Reports, Wrote
  <2>4. CASE Wrote(c).word \notin {"approved", "granted", "rejected"}
    <3>1. Refuse(c) /\ pc[c] # "idle"
      BY <1>8, <2>4 DEF AfterDecideWrite, Wrote
    <3> QED
      BY <1>2, <3>1
  <2> QED
    BY <2>1, <2>2, <2>3, <2>4
<1>9. CASE ClaimTerminal(c)
  BY <1>2, <1>9 DEF ClaimTerminal, Turns, Claims
<1>10. CASE StampTerminal(c)
  <2> DEFINE says == Says(Approval(call[c].approval))
             word == CASE clock < says.from   -> "revoked"
                       [] clock >= says.until -> "expired"
                       [] OTHER               -> "consumed"
  <2>1. /\ word \in {"revoked", "expired", "consumed"}
        /\ word = "consumed" => ~(clock < says.from) /\ ~(clock >= says.until)
    OBVIOUS
  <2>2. /\ pc[c] = "stamp"
        /\ Turn(c, "write", work[c].slot,
                TerminalRecord(word, call[c].proposal,
                               IF word = "consumed" THEN {call[c].run} ELSE {}, clock))
        /\ UNCHANGED <<store, lock, call, now, todo, clock, history, bounds>>
    BY <1>10 DEF StampTerminal
  <2> HIDE DEF word, says
  <2>3. Stamps(c)
    BY <2>1, <2>2 DEF Stamps, says
  <2> QED
    BY <2>3 DEF Turns
<1>11. CASE AfterConsumeWrite(c)
  BY <1>2, <1>11 DEF AfterConsumeWrite, Ends, Uses, Wrote
<1> QED
  BY <1>1, <1>3, <1>4, <1>5, <1>6, <1>7, <1>8, <1>9, <1>10, <1>11 DEF Step, FileMoves

LEMMA NextCases ==
  ASSUME TypeOK, [Next]_vars
  PROVE  \/ UNCHANGED vars \/ Tick \/ SetBack \/ PowerLoss
         \/ \E c \in Callers : Begin(c) \/ Acquire(c) \/ Moves(c)
BY StepCases DEF Next

-----------------------------------------------------------------------------

(* What a move leaves alone. *)

LEMMA LeaveShape ==
  ASSUME TypeOK, NEW c \in Callers, Leave(c)
  PROVE  /\ lock' = lock \ {c} /\ pc'[c] = "idle" /\ call'[c] = NoCall /\ now'[c] = 0
         /\ todo'[c] = {} /\ work'[c] = NoWork
         /\ \A d \in Callers : d # c =>
              /\ pc'[d] = pc[d] /\ call'[d] = call[d] /\ now'[d] = now[d]
              /\ todo'[d] = todo[d] /\ work'[d] = work[d]
BY DEF TypeOK, Leave, Go

LEMMA EndShape ==
  ASSUME TypeOK, NEW c \in Callers, Ends(c)
  PROVE  /\ UNCHANGED <<store, clock, asked, bounds>> /\ Leave(c) /\ pc[c] # "idle"
         /\ UNCHANGED <<told, uses>> \/ Reports(c) \/ Uses(c)
         /\ Reports(c) => uses' = uses
         /\ Uses(c) => told' = told
BY DEF Ends, Refuse, Reports, Uses

LEMMA TurnShape ==
  ASSUME TypeOK, NEW c \in Callers, NEW next, NEW slot, NEW b, Turn(c, next, slot, b)
  PROVE  /\ pc'[c] = next /\ work'[c] = [slot |-> slot, says |-> {b}]
         /\ \A d \in Callers : d # c => pc'[d] = pc[d] /\ work'[d] = work[d]
BY DEF TypeOK, Turn, Go

LEMMA FileMoveFrame ==
  ASSUME TypeOK, NEW c \in Callers, FileMoves(c)
  PROVE  /\ UNCHANGED <<drawn, lock, local, clock, history, bounds>>
         /\ \A d \in Callers : d # c => pc'[d] = pc[d]
         /\ pc[c] \in WritingPCs \cup ClaimingPCs
<1> USE DEF TypeOK, Go, WritingPCs, ClaimingPCs
<1>1. CASE OpenFile(c) \/ WriteFile(c) \/ SyncFile(c) \/ SyncClaim(c)
  BY <1>1 DEF OpenFile, WriteFile, SyncFile, SyncClaim, FileStep
<1>2. CASE SyncDirectory(c) \/ SyncClaimDirectory(c)
  BY <1>2 DEF SyncDirectory, SyncClaimDirectory, LinkFiles
<1>3. CASE SyncParent(c)
  BY <1>3 DEF SyncParent
<1> QED
  BY <1>1, <1>2, <1>3 DEF FileMoves

LEMMA TurnFrame ==
  ASSUME TypeOK, NEW c \in Callers, Turns(c)
  PROVE  /\ UNCHANGED <<lock, call, now, clock, history, bounds>>
         /\ \A d \in Callers : d # c => pc'[d] = pc[d] /\ work'[d] = work[d] /\ todo'[d] = todo[d]
         /\ pc[c] \notin {"idle", "lock"}
<1>1. CASE StartCreate(c)
  BY <1>1 DEF StartCreate, Go, TypeOK
<1>2. CASE Skips(c)
  BY <1>2 DEF Skips, TypeOK
<1>3. CASE Expires(c)
  BY <1>3, TurnShape DEF Expires, TypeOK
<1>4. CASE Makes(c)
  BY <1>4, TurnShape DEF Makes
<1>5. CASE Rescans(c)
  BY <1>5 DEF Rescans, Go, TypeOK
<1>6. CASE Rules(c)
  BY <1>6, TurnShape DEF Rules
<1>7. CASE Begins(c)
  BY <1>7, TurnShape DEF Begins
<1>8. CASE Claims(c)
  BY <1>8 DEF Claims, Go, TypeOK
<1>9. CASE Stamps(c)
  BY <1>9, TurnShape DEF Stamps
<1> QED
  BY <1>1, <1>2, <1>3, <1>4, <1>5, <1>6, <1>7, <1>8, <1>9 DEF Turns

LEMMA MoveFrame ==
  ASSUME TypeOK, NEW c \in Callers, Moves(c)
  PROVE  /\ UNCHANGED <<clock, asked, bounds>>
         /\ pc[c] # "idle"
         /\ \A d \in Callers : d # c =>
              /\ pc'[d] = pc[d] /\ call'[d] = call[d] /\ now'[d] = now[d]
              /\ todo'[d] = todo[d] /\ work'[d] = work[d]
<1>1. CASE FileMoves(c)
  BY <1>1, FileMoveFrame DEF WritingPCs, ClaimingPCs
<1>2. CASE Turns(c)
  BY <1>2, TurnFrame
<1>3. CASE Ends(c)
  BY <1>3, EndShape, LeaveShape
<1> QED
  BY <1>1, <1>2, <1>3 DEF Moves

LEMMA BeginShape ==
  ASSUME TypeOK, NEW c \in Callers, Begin(c)
  PROVE  /\ call'[c] \in AllCalls /\ now'[c] \in Nat /\ pc[c] = "idle" /\ pc'[c] = "lock"
         /\ call'[c].op = "decide" /\ call'[c].verdict = "approve" =>
              [challenge |-> call'[c].challenge, proposal |-> call'[c].proposal, at |-> now'[c]]
                \in asked'
         /\ asked \subseteq asked'
         /\ asked' \subseteq [challenge : ChallengeIds, proposal : Proposals, at : Nat]
         /\ call' = [call EXCEPT ![c] = call'[c]] /\ now' = [now EXCEPT ![c] = now'[c]]
         /\ pc' = [pc EXCEPT ![c] = "lock"]
         /\ UNCHANGED <<store, lock, todo, work, clock, told, uses, scene>>
         /\ spent' = [spent EXCEPT !["calls"] = @ + 1]
<1>1. scene.proposals \subseteq Proposals /\ scene.runs \subseteq Runs
  BY ScenariosAssumption DEF TypeOK
<1>2. PICK what \in Possible :
        /\ call' = [call EXCEPT ![c] = what]
        /\ now' = [now EXCEPT ![c] = IF what.op = "consume" THEN 0 ELSE clock]
        /\ asked' = IF what.op = "decide" /\ what.verdict = "approve"
                    THEN asked \cup {[challenge |-> what.challenge,
                                      proposal |-> what.proposal, at |-> clock]}
                    ELSE asked
  BY DEF Begin
<1>3. /\ what \in AllCalls
      /\ what.op = "decide" => what.challenge \in ChallengeIds /\ what.proposal \in Proposals
  <2>1. ASSUME NEW p \in scene.proposals, what = CreateCall(p)
        PROVE  what \in AllCalls /\ what.op = "create"
    BY <1>1, <2>1 DEF CreateCall, AllCalls
  <2>2. ASSUME NEW x \in ChallengeIds, NEW p \in scene.proposals, NEW v \in {"approve", "reject"},
               what = DecideCall(x, p, v)
        PROVE  /\ what \in AllCalls
               /\ what.challenge \in ChallengeIds /\ what.proposal \in Proposals
    BY <1>1, <2>2 DEF DecideCall, AllCalls
  <2>3. ASSUME NEW a \in ApprovalIds, NEW p \in scene.proposals, NEW r \in scene.runs,
               what = ConsumeCall(a, p, r)
        PROVE  what \in AllCalls /\ what.op = "consume"
    BY <1>1, <2>3 DEF ConsumeCall, AllCalls
  <2> QED
    BY <2>1, <2>2, <2>3 DEF Possible
<1>4. call'[c] = what /\ now'[c] = IF what.op = "consume" THEN 0 ELSE clock
  BY <1>2 DEF TypeOK
<1>5. now'[c] \in Nat /\ clock \in Nat
  BY <1>4 DEF TypeOK
<1>6. /\ asked' \subseteq [challenge : ChallengeIds, proposal : Proposals, at : Nat]
      /\ asked \subseteq asked'
      /\ what.op = "decide" /\ what.verdict = "approve" =>
           [challenge |-> what.challenge, proposal |-> what.proposal, at |-> now'[c]] \in asked'
  BY <1>2, <1>3, <1>4, <1>5 DEF TypeOK
<1> QED
  BY <1>2, <1>3, <1>4, <1>5, <1>6 DEF Begin, Go, Spend, TypeOK

-----------------------------------------------------------------------------

(* The lock, and what humans asked for. *)

LEMMA LockStep ==
  ASSUME TypeOK, LockInv, [Next]_vars
  PROVE  LockInv'
<1> USE DEF LockInv
<1>1. CASE UNCHANGED vars \/ Tick \/ SetBack
  BY <1>1 DEF vars, Tick, SetBack
<1>2. CASE PowerLoss
  BY <1>2 DEF PowerLoss
<1>3. ASSUME NEW c \in Callers, Begin(c) PROVE LockInv'
  BY <1>3, BeginShape DEF TypeOK
<1>4. ASSUME NEW c \in Callers, Acquire(c) PROVE LockInv'
  BY <1>4 DEF Acquire, Go, TypeOK
<1>5. ASSUME NEW c \in Callers, FileMoves(c) \/ Turns(c) PROVE LockInv'
  BY <1>5, FileMoveFrame, TurnFrame DEF WritingPCs, ClaimingPCs
<1>6. ASSUME NEW c \in Callers, Ends(c) PROVE LockInv'
  <2>1. /\ lock' = lock \ {c} /\ pc'[c] = "idle"
        /\ \A d \in Callers : d # c => pc'[d] = pc[d]
    BY <1>6, EndShape, LeaveShape
  <2> QED
    BY <2>1
<1> QED
  BY <1>1, <1>2, <1>3, <1>4, <1>5, <1>6, NextCases DEF Moves

\* Whoever moves from a place that needs the lock is alone there.
LEMMA Alone ==
  ASSUME LockInv, NEW c \in Callers, NEW d \in Callers, c # d,
         pc[c] \notin {"idle", "lock"}
  PROVE  pc[d] \in {"idle", "lock"}
BY DEF LockInv

LEMMA AskedStep ==
  ASSUME TypeOK, AskedInv, [Next]_vars
  PROVE  AskedInv' /\ asked \subseteq asked'
<1> USE DEF AskedInv
<1>1. CASE UNCHANGED vars \/ Tick \/ SetBack
  BY <1>1 DEF vars, Tick, SetBack
<1>2. CASE PowerLoss
  BY <1>2 DEF PowerLoss, NoCall
<1>3. ASSUME NEW c \in Callers, Begin(c) PROVE AskedInv' /\ asked \subseteq asked'
  <2>1. \A d \in Callers : d # c => call'[d] = call[d] /\ now'[d] = now[d]
    <3>1. DOMAIN call = Callers /\ DOMAIN now = Callers
      BY DEF TypeOK
    <3>2. call' = [call EXCEPT ![c] = call'[c]] /\ now' = [now EXCEPT ![c] = now'[c]]
      BY <1>3, BeginShape
    <3> QED
      BY ONLY <3>1, <3>2
  <2> QED
    BY <1>3, <2>1, BeginShape
<1>4. ASSUME NEW c \in Callers, Acquire(c) PROVE AskedInv' /\ asked \subseteq asked'
  BY <1>4 DEF Acquire
<1>5. ASSUME NEW c \in Callers, FileMoves(c) \/ Turns(c) PROVE AskedInv' /\ asked \subseteq asked'
  BY <1>5, FileMoveFrame, TurnFrame
<1>6. ASSUME NEW c \in Callers, Ends(c) PROVE AskedInv' /\ asked \subseteq asked'
  BY <1>6, EndShape, LeaveShape DEF NoCall
<1> QED
  BY <1>1, <1>2, <1>3, <1>4, <1>5, <1>6, NextCases DEF Moves

-----------------------------------------------------------------------------

(* The writing of a file. *)

LEMMA FileStepShape ==
  ASSUME TypeOK, NEW c \in Callers, NEW from, NEW next, NEW file, FileStep(c, from, next, file)
  PROVE  /\ pc[c] = from /\ pc'[c] = next /\ dirs' = dirs
         /\ \A t \in Slots : t # work[c].slot => files'[t] = files[t]
         /\ work[c].slot \in Slots => files'[work[c].slot] = file
         /\ files' = [files EXCEPT ![work[c].slot] = file]
BY DEF TypeOK, FileStep, Go

LEMMA LinkFilesShape ==
  ASSUME TypeOK, NEW c \in Callers, NEW from, NEW next, LinkFiles(c, from, next)
  PROVE  /\ pc[c] = from /\ pc'[c] = next /\ dirs' = dirs
         /\ files' = [t \in Slots |-> files'[t]]
         /\ \A t \in Slots :
              \/ files'[t] = [files[t] EXCEPT !.linked = TRUE]
                 /\ t[2] = work[c].slot[2] /\ files[t].there
              \/ files'[t] = files[t] /\ ~(t[2] = work[c].slot[2] /\ files[t].there)
BY DEF TypeOK, LinkFiles, Go

\* A record of flags with one of them set is such a record.
LEMMA FlagTyped ==
  ASSUME NEW f \in [there : BOOLEAN, good : BOOLEAN, synced : BOOLEAN,
                    linked : BOOLEAN, says : SUBSET Records],
         NEW b \in SUBSET Records
  PROVE  /\ [f EXCEPT !.synced = TRUE] \in [there : BOOLEAN, good : BOOLEAN, synced : BOOLEAN,
                                            linked : BOOLEAN, says : SUBSET Records]
         /\ [f EXCEPT !.linked = TRUE] \in [there : BOOLEAN, good : BOOLEAN, synced : BOOLEAN,
                                            linked : BOOLEAN, says : SUBSET Records]
         /\ [f EXCEPT !.synced = TRUE, !.linked = TRUE]
              \in [there : BOOLEAN, good : BOOLEAN, synced : BOOLEAN,
                   linked : BOOLEAN, says : SUBSET Records]
         /\ [f EXCEPT !.good = TRUE, !.synced = FALSE, !.says = b]
              \in [there : BOOLEAN, good : BOOLEAN, synced : BOOLEAN,
                   linked : BOOLEAN, says : SUBSET Records]
OBVIOUS

LEMMA FlagsSet ==
  ASSUME NEW f \in [there : BOOLEAN, good : BOOLEAN, synced : BOOLEAN,
                    linked : BOOLEAN, says : SUBSET Records], NEW b
  PROVE  /\ LET g == [f EXCEPT !.synced = TRUE] IN
              g.there = f.there /\ g.good = f.good /\ g.synced /\ g.linked = f.linked /\ g.says = f.says
         /\ LET g == [f EXCEPT !.linked = TRUE] IN
              g.there = f.there /\ g.good = f.good /\ g.synced = f.synced /\ g.linked /\ g.says = f.says
         /\ LET g == [f EXCEPT !.synced = TRUE, !.linked = TRUE] IN
              g.there = f.there /\ g.good = f.good /\ g.synced /\ g.linked /\ g.says = f.says
         /\ LET g == [f EXCEPT !.good = TRUE, !.synced = FALSE, !.says = b] IN
              g.there = f.there /\ g.good /\ ~g.synced /\ g.linked = f.linked /\ g.says = b
OBVIOUS

LEMMA EmptyFiles ==
  /\ {NoFile, TornFile, [TornFile EXCEPT !.synced = TRUE, !.linked = TRUE]}
       \subseteq [there : BOOLEAN, good : BOOLEAN, synced : BOOLEAN,
                  linked : BOOLEAN, says : SUBSET Records]
  /\ ~NoFile.there /\ ~NoFile.good /\ TornFile.there /\ ~TornFile.good
  /\ LET g == [TornFile EXCEPT !.synced = TRUE, !.linked = TRUE] IN g.there /\ ~g.good
<1> DEFINE Files == [there : BOOLEAN, good : BOOLEAN, synced : BOOLEAN,
                     linked : BOOLEAN, says : SUBSET Records]
<1>1. NoFile \in Files /\ ~NoFile.there /\ ~NoFile.good
  BY DEF NoFile
<1>2. \A f \in Files : LET g == [f EXCEPT !.there = TRUE] IN
        g \in Files /\ g.there /\ g.good = f.good
  OBVIOUS
<1>3. TornFile \in Files /\ TornFile.there /\ ~TornFile.good
  BY <1>1, <1>2 DEF TornFile
<1>4. LET g == [TornFile EXCEPT !.synced = TRUE, !.linked = TRUE] IN
        g \in Files /\ g.there /\ ~g.good
  BY <1>3, FlagTyped, FlagsSet
<1> QED
  BY <1>1, <1>3, <1>4

\* The writer is at a file, and knows how far it is.
LEMMA AtWork ==
  ASSUME WorkInv, NEW c \in Callers, pc[c] \in WritingPCs \cup ClaimingPCs
  PROVE  WriteAt(c) /\ work[c].slot \in Slots
BY DEF WorkInv, WriteAt

\* What a power loss leaves.
LEMMA LossShape ==
  ASSUME TypeOK, PowerLoss
  PROVE  /\ files' = [s \in Slots |-> files'[s]]
         /\ dirs' \in [ChallengeIds \cup ApprovalIds -> {"absent", "linked"}]
         /\ \A i \in ChallengeIds \cup ApprovalIds :
              /\ dirs[i] = "absent" => dirs'[i] = "absent"
              /\ dirs[i] = "linked" => dirs'[i] = "linked"
         /\ \A s \in Slots :
              /\ \/ files'[s] = NoFile
                 \/ /\ files[s].there
                    /\ dirs'[s[2]] = "absent" => dirs[s[2]] = "absent"
                    /\ \/ files'[s] = [TornFile EXCEPT !.synced = TRUE, !.linked = TRUE]
                       \/ files'[s] = [files[s] EXCEPT !.synced = TRUE, !.linked = TRUE]
              /\ files[s].there /\ files[s].synced /\ files[s].linked /\ dirs[s[2]] = "linked" =>
                   files'[s] = [files[s] EXCEPT !.synced = TRUE, !.linked = TRUE]
<1>1. PICK goneDirs \in SUBSET {i \in DOMAIN dirs : dirs[i] = "made"},
           goneFiles \in SUBSET {s \in Slots : files[s].there /\ ~files[s].linked},
           torn \in SUBSET {s \in Slots : files[s].there /\ ~files[s].synced} :
       /\ dirs' = [i \in DOMAIN dirs |->
                     IF dirs[i] = "absent" \/ i \in goneDirs THEN "absent" ELSE "linked"]
       /\ files' = [s \in Slots |->
            IF ~files[s].there \/ s \in goneFiles \/ s[2] \in goneDirs THEN NoFile
            ELSE IF s \in torn THEN [TornFile EXCEPT !.synced = TRUE, !.linked = TRUE]
            ELSE [files[s] EXCEPT !.synced = TRUE, !.linked = TRUE]]
  BY DEF PowerLoss
<1>2. DOMAIN dirs = ChallengeIds \cup ApprovalIds
  BY DEF TypeOK
<1>3. \A s \in Slots : s[2] \in ChallengeIds \cup ApprovalIds
  BY SlotFacts
<1>4. \A i \in goneDirs : dirs[i] = "made"
  OBVIOUS
<1>5. \A s \in goneFiles : ~files[s].linked
  OBVIOUS
<1>6. \A s \in torn : ~files[s].synced
  OBVIOUS
<1>7. \A i \in ChallengeIds \cup ApprovalIds :
        dirs'[i] = IF dirs[i] = "absent" \/ i \in goneDirs THEN "absent" ELSE "linked"
  BY <1>1, <1>2
<1>8. \A s \in Slots :
        files'[s] = IF ~files[s].there \/ s \in goneFiles \/ s[2] \in goneDirs THEN NoFile
                    ELSE IF s \in torn THEN [TornFile EXCEPT !.synced = TRUE, !.linked = TRUE]
                    ELSE [files[s] EXCEPT !.synced = TRUE, !.linked = TRUE]
  BY <1>1
<1>9. dirs' \in [ChallengeIds \cup ApprovalIds -> {"absent", "linked"}]
  BY <1>1, <1>2
<1>10. /\ files' = [s \in Slots |-> files'[s]]
  BY <1>1
<1>11. ASSUME NEW s \in Slots
       PROVE  /\ \/ files'[s] = NoFile
                 \/ /\ files[s].there
                    /\ dirs'[s[2]] = "absent" => dirs[s[2]] = "absent"
                    /\ \/ files'[s] = [TornFile EXCEPT !.synced = TRUE, !.linked = TRUE]
                       \/ files'[s] = [files[s] EXCEPT !.synced = TRUE, !.linked = TRUE]
              /\ files[s].there /\ files[s].synced /\ files[s].linked /\ dirs[s[2]] = "linked" =>
                   files'[s] = [files[s] EXCEPT !.synced = TRUE, !.linked = TRUE]
  <2>1. s[2] \in ChallengeIds \cup ApprovalIds
    BY <1>3
  <2>2. dirs[s[2]] = "linked" => s[2] \notin goneDirs
    BY <1>4
  <2>3. s[2] \notin goneDirs /\ dirs'[s[2]] = "absent" => dirs[s[2]] = "absent"
    BY <1>7, <2>1
  <2> QED
    BY <1>5, <1>6, <1>8, <2>2, <2>3
<1> QED
  BY <1>2, <1>4, <1>7, <1>9, <1>10, <1>11

-----------------------------------------------------------------------------

(* The turns to a file, and what will be written there. *)

Turned(c, next, slot, b) ==
  /\ slot \in Slots /\ b \in Records
  /\ pc' = [pc EXCEPT ![c] = next]
  /\ work' = [work EXCEPT ![c] = [slot |-> slot, says |-> {b}]]
  /\ pc'[c] = next /\ work'[c] = [slot |-> slot, says |-> {b}]
  /\ \A d \in Callers : d # c => pc'[d] = pc[d] /\ work'[d] = work[d]

LEMMA TurnTurned ==
  ASSUME TypeOK, NEW c \in Callers, NEW next, NEW slot \in Slots, NEW b \in Records,
         Turn(c, next, slot, b)
  PROVE  Turned(c, next, slot, b)
<1>1. pc' = [pc EXCEPT ![c] = next] /\ work' = [work EXCEPT ![c] = [slot |-> slot, says |-> {b}]]
  BY DEF Turn, Go
<1>2. /\ pc'[c] = next /\ work'[c] = [slot |-> slot, says |-> {b}]
      /\ \A d \in Callers : d # c => pc'[d] = pc[d] /\ work'[d] = work[d]
  BY TurnShape
<1> QED
  BY <1>1, <1>2 DEF Turned

LEMMA ExpiresShape ==
  ASSUME TypeOK, FilesInv, NEW c \in Callers, Expires(c)
  PROVE  \E x \in ChallengeIds, b \in Records :
           /\ x \in todo[c] /\ b.word = "expired" /\ b.link = {}
           /\ Turned(c, "open", Decision(x), b)
           /\ pc[c] = "scan" /\ dirs[x] # "absent" /\ ~Decided(x)
           /\ todo' = [todo EXCEPT ![c] = @ \ {x}] /\ todo'[c] = todo[c] \ {x}
           /\ UNCHANGED <<store, call, uses>>
<1>1. PICK x \in todo[c] :
        /\ ChallengeLoads(x) /\ ~Decided(x)
        /\ todo' = [todo EXCEPT ![c] = @ \ {x}]
        /\ Turn(c, "open", Decision(x),
                DecisionRecord("expired", Says(Challenge(x)).proposal, {}, now[c]))
  BY DEF Expires
<1>2. x \in ChallengeIds /\ todo'[c] = todo[c] \ {x} /\ now[c] \in Nat
  BY <1>1 DEF TypeOK
<1>3. dirs[x] # "absent" /\ files[Challenge(x)].good /\ Challenge(x) \in Slots
      /\ Decision(x) \in Slots
  BY <1>1, <1>2, SlotFacts DEF ChallengeLoads, Whole
<1>4. Says(Challenge(x)).proposal \in Proposals
  BY <1>3, Readable DEF Records
<1> DEFINE b == DecisionRecord("expired", Says(Challenge(x)).proposal, {}, now[c])
<1>5. b \in Records /\ b.word = "expired" /\ b.link = {}
  BY <1>2, <1>4, RecordTyped DEF DecisionRecord, Words
<1>6. Turned(c, "open", Decision(x), b)
  BY <1>1, <1>3, <1>5, TurnTurned
<1> HIDE DEF b
<1> QED
  BY <1>1, <1>2, <1>3, <1>5, <1>6 DEF Expires

LEMMA MakesShape ==
  ASSUME TypeOK, NEW c \in Callers, Makes(c), pc[c] = "scan" => call[c].op = "create"
  PROVE  \E x \in ChallengeIds, b \in Records :
           /\ x \notin drawn /\ b.word = "asked"
           /\ Turned(c, "open", Challenge(x), b)
           /\ pc[c] = "scan" /\ todo[c] = {}
           /\ drawn' = drawn \cup {x} /\ dirs' = [dirs EXCEPT ![x] = "made"]
           /\ UNCHANGED <<files, call, todo, uses>>
<1>1. PICK x \in (ChallengeIds \cap scene.ids) \ drawn :
        /\ drawn' = drawn \cup {x}
        /\ dirs' = [dirs EXCEPT ![x] = "made"]
        /\ Turn(c, "open", Challenge(x), ChallengeRecord(call[c].proposal, now[c]))
  BY DEF Makes
<1>2. call[c].proposal \in Proposals /\ now[c] \in Nat /\ now[c] + ChallengeLifetime \in Nat
  BY CallTyped, LifetimesAssumption DEF Makes, TypeOK
<1> DEFINE b == ChallengeRecord(call[c].proposal, now[c])
<1>3. b \in Records /\ b.word = "asked"
  BY <1>2, RecordTyped DEF ChallengeRecord, Words
<1>4. Turned(c, "open", Challenge(x), b)
  BY <1>1, <1>3, TurnTurned, SlotFacts
<1> HIDE DEF b
<1> QED
  BY <1>1, <1>3, <1>4 DEF Makes

LEMMA RulesShape ==
  ASSUME TypeOK, NEW c \in Callers, Rules(c)
  PROVE  \E x \in ChallengeIds, b \in Records :
           /\ x = call[c].challenge /\ pc[c] = "begin" /\ call[c].op = "decide"
           /\ dirs[x] # "absent" /\ ~Decided(x)
           /\ Turned(c, "open", Decision(x), b)
           /\ \/ b.word \in {"expired", "rejected"} /\ b.link = {} /\ drawn' = drawn
              \/ /\ b.word = "approved" /\ call[c].verdict = "approve"
                 /\ \E a \in ApprovalIds : a \notin drawn /\ b.link = {a} /\ drawn' = drawn \cup {a}
           /\ UNCHANGED <<dirs, files, call, todo, uses>>
<1> DEFINE x == call[c].challenge
<1>1. /\ x \in ChallengeIds /\ call[c].proposal \in Proposals /\ now[c] \in Nat
      /\ call[c].verdict \in {"approve", "reject"} /\ call[c].op = "decide"
  BY CallTyped DEF Rules, TypeOK
<1>2. dirs[x] # "absent" /\ ~Decided(x) /\ Decision(x) \in Slots
  BY <1>1, SlotFacts DEF Rules, Decidable, ChallengeLoads
<1>3. CASE /\ drawn' = drawn
           /\ \E word \in {"expired", "rejected"} :
                Turn(c, "open", Decision(x), DecisionRecord(word, call[c].proposal, {}, now[c]))
  <2>1. PICK word \in {"expired", "rejected"} :
          Turn(c, "open", Decision(x), DecisionRecord(word, call[c].proposal, {}, now[c]))
    BY <1>3
  <2> DEFINE b == DecisionRecord(word, call[c].proposal, {}, now[c])
  <2>2. b \in Records /\ b.word = word /\ b.link = {}
    BY <1>1, RecordTyped DEF DecisionRecord, Words
  <2>3. Turned(c, "open", Decision(x), b)
    BY <1>2, <2>1, <2>2, TurnTurned
  <2> HIDE DEF b
  <2> QED
    BY <1>1, <1>2, <1>3, <2>2, <2>3 DEF Rules
<1>4. CASE /\ call[c].verdict # "reject"
           /\ \E a \in (ApprovalIds \cap scene.ids) \ drawn :
                /\ drawn' = drawn \cup {a}
                /\ Turn(c, "open", Decision(x),
                        DecisionRecord("approved", call[c].proposal, {a}, now[c]))
  <2>1. PICK a \in (ApprovalIds \cap scene.ids) \ drawn :
          /\ drawn' = drawn \cup {a}
          /\ Turn(c, "open", Decision(x), DecisionRecord("approved", call[c].proposal, {a}, now[c]))
    BY <1>4
  <2> DEFINE b == DecisionRecord("approved", call[c].proposal, {a}, now[c])
  <2>2. b \in Records /\ b.word = "approved" /\ b.link = {a}
    BY <1>1, RecordTyped DEF DecisionRecord, Words, Links
  <2>3. Turned(c, "open", Decision(x), b)
    BY <1>2, <2>1, <2>2, TurnTurned
  <2> HIDE DEF b
  <2> QED
    BY <1>1, <1>2, <1>4, <2>1, <2>2, <2>3 DEF Rules
<1> QED
  BY <1>3, <1>4 DEF Rules

\* What a caller that has written its file wrote there.
LEMMA WroteShape ==
  ASSUME TypeOK, WorkInv, NEW c \in Callers, pc[c] = "written"
  PROVE  /\ Wrote(c) \in Records /\ work[c].says = {Wrote(c)}
         /\ Fits(work[c].slot, Wrote(c)) /\ WritesFor(c, Wrote(c)) /\ WriteAt(c)
         /\ work[c].slot \in Slots /\ Durable(work[c].slot) /\ Says(work[c].slot) = Wrote(c)
<1>1. WriteAt(c) /\ work[c].slot \in Slots
  BY AtWork DEF WritingPCs
<1>2. PICK b \in work[c].says :
        work[c].says = {b} /\ Fits(work[c].slot, b) /\ WritesFor(c, b)
  BY <1>1 DEF WriteAt, WritingPCs
<1>3. Wrote(c) = b
  BY <1>2, SaysOne DEF Wrote
<1>4. b \in Records
  BY <1>2 DEF TypeOK
<1>5. Durable(work[c].slot) /\ files[work[c].slot].says = work[c].says
  BY <1>1 DEF WriteAt, Durable, Whole
<1>6. Says(work[c].slot) = b
  BY <1>2, <1>5, SaysOne DEF Says
<1> QED
  BY <1>1, <1>2, <1>3, <1>4, <1>5, <1>6

LEMMA BeginsShape ==
  ASSUME TypeOK, WorkInv, NEW c \in Callers, Begins(c)
  PROVE  \E a \in ApprovalIds, b \in Records :
           /\ pc[c] = "written" /\ call[c].op = "decide" /\ call[c].challenge \in ChallengeIds
           /\ a \in Wrote(c).link /\ Wrote(c).word = "approved"
           /\ Turned(c, "open", Approval(a), b)
           /\ b.word = "granted" /\ b.link = {call[c].challenge}
           /\ b.proposal = call[c].proposal /\ b.from = now[c] /\ b.until = now[c] + ApprovalLifetime
           /\ dirs' = [dirs EXCEPT ![a] = "made"]
           /\ UNCHANGED <<files, drawn, call, todo, uses>>
<1>1. PICK a \in Wrote(c).link :
        /\ dirs' = [dirs EXCEPT ![a] = "made"]
        /\ Turn(c, "open", Approval(a),
                ApprovalRecord(call[c].proposal, call[c].challenge, now[c]))
  BY DEF Begins
<1>2. /\ pc[c] = "written" /\ call[c].op = "decide" /\ call[c].challenge \in ChallengeIds
      /\ call[c].proposal \in Proposals
      /\ now[c] \in Nat /\ now[c] + ApprovalLifetime \in Nat
  BY CallTyped, LifetimesAssumption DEF Begins, TypeOK
<1>3. a \in ApprovalIds
  <2>1. Wrote(c).word = "approved" /\ Fits(work[c].slot, Wrote(c)) /\ work[c].slot \in Slots
    BY <1>2, WroteShape DEF Begins
  <2> QED
    BY <1>1, <2>1, SlotFacts DEF Fits
<1> DEFINE b == ApprovalRecord(call[c].proposal, call[c].challenge, now[c])
<1>4. /\ b \in Records /\ b.word = "granted" /\ b.link = {call[c].challenge}
      /\ b.proposal = call[c].proposal /\ b.from = now[c] /\ b.until = now[c] + ApprovalLifetime
  BY <1>2, RecordTyped DEF ApprovalRecord, Words, Links
<1>5. Turned(c, "open", Approval(a), b)
  BY <1>1, <1>3, <1>4, TurnTurned, SlotFacts
<1> HIDE DEF b
<1> QED
  BY <1>1, <1>2, <1>3, <1>4, <1>5 DEF Begins

LEMMA StampsShape ==
  ASSUME TypeOK, FilesInv, WorkInv, NEW c \in Callers, Stamps(c)
  PROVE  \E b \in Records :
           /\ pc[c] = "stamp" /\ call[c].op = "consume" /\ work[c].slot = Terminal(call[c].approval)
           /\ WriteAt(c) /\ ClaimAt(c)
           /\ Turned(c, "write", work[c].slot, b)
           /\ b.word \in {"revoked", "expired", "consumed"}
           /\ b.word = "consumed" =>
                /\ b.link = {call[c].run}
                /\ Says(Approval(call[c].approval)).from <= b.from
                /\ b.from < Says(Approval(call[c].approval)).until
           /\ UNCHANGED <<store, call, todo, uses>>
<1> DEFINE says == Says(Approval(call[c].approval))
<1>1. PICK word \in {"revoked", "expired", "consumed"} :
        /\ word = "consumed" => ~(clock < says.from) /\ ~(clock >= says.until)
        /\ Turn(c, "write", work[c].slot,
                TerminalRecord(word, call[c].proposal,
                               IF word = "consumed" THEN {call[c].run} ELSE {}, clock))
  BY DEF Stamps
<1>2. pc[c] = "stamp" /\ call[c].op = "consume" /\ WriteAt(c) /\ ClaimAt(c)
  BY DEF Stamps, WorkInv, ClaimingPCs
<1>3. /\ call[c].proposal \in Proposals /\ call[c].run \in Runs /\ call[c].approval \in ApprovalIds
      /\ clock \in Nat /\ work[c].slot \in Slots
  BY <1>2, CallTyped DEF TypeOK, WriteAt
<1>4. says \in Records
  BY <1>2, <1>3, Readable, SlotFacts DEF ClaimAt, Whole
<1>5. says.from \in Nat /\ says.until \in Nat
  BY <1>4 DEF Records
<1> DEFINE link == IF word = "consumed" THEN {call[c].run} ELSE {}
           b == TerminalRecord(word, call[c].proposal, link, clock)
<1>6. b \in Records /\ b.word = word /\ b.link = link /\ b.from = clock
  <2>1. link \in SUBSET Links /\ word \in Words
    BY <1>3 DEF Links, Words
  <2> HIDE DEF link
  <2> QED
    BY <1>3, <2>1, RecordTyped DEF TerminalRecord
<1>7. Turned(c, "write", work[c].slot, b)
  BY <1>1, <1>3, <1>6, TurnTurned
<1> HIDE DEF b, says
<1> QED
  BY <1>1, <1>2, <1>3, <1>5, <1>6, <1>7 DEF Stamps, says, ClaimAt

-----------------------------------------------------------------------------

(* What a step does to one file and to one directory. *)

LEMMA ClaimsShape ==
  ASSUME TypeOK, NEW c \in Callers, Claims(c)
  PROVE  \E a \in ApprovalIds :
           /\ a = call[c].approval /\ pc[c] = "begin" /\ call[c].op = "consume"
           /\ Consumable(a) /\ Says(Approval(a)).proposal = call[c].proposal
           /\ Terminal(a) \in Slots /\ ~files[Terminal(a)].there
           /\ dirs[a] # "absent" /\ files[Approval(a)].there /\ files[Approval(a)].good
           /\ files' = [files EXCEPT ![Terminal(a)] = TornFile]
           /\ files'[Terminal(a)] = TornFile
           /\ \A s \in Slots : s # Terminal(a) => files'[s] = files[s]
           /\ pc'[c] = "claimSync" /\ work'[c] = [slot |-> Terminal(a), says |-> {}]
           /\ work' = [work EXCEPT ![c] = [slot |-> Terminal(a), says |-> {}]]
           /\ pc' = [pc EXCEPT ![c] = "claimSync"]
           /\ UNCHANGED <<dirs, drawn, call, todo, uses>>
<1>1. PICK a \in ApprovalIds : a = call[c].approval
  BY CallTyped DEF Claims
<1>2. Terminal(a) \in Slots
  BY SlotFacts
<1>3. files' = [files EXCEPT ![Terminal(a)] = TornFile]
  BY <1>1 DEF Claims
<1>4. /\ files'[Terminal(a)] = TornFile
      /\ \A s \in Slots : s # Terminal(a) => files'[s] = files[s]
  BY <1>2, <1>3 DEF TypeOK
<1>5. Consumable(a) /\ Says(Approval(a)).proposal = call[c].proposal
  BY <1>1 DEF Claims
<1>6. ~files[Terminal(a)].there /\ dirs[a] # "absent" /\ files[Approval(a)].there
      /\ files[Approval(a)].good
  BY <1>5 DEF Consumable, ApprovalLoads, Whole
<1>7. /\ pc' = [pc EXCEPT ![c] = "claimSync"]
      /\ work' = [work EXCEPT ![c] = [slot |-> Terminal(a), says |-> {}]]
      /\ pc[c] = "begin" /\ call[c].op = "consume"
      /\ UNCHANGED <<dirs, drawn, call, todo, uses>>
  BY <1>1 DEF Claims, Go
<1>8. pc'[c] = "claimSync" /\ work'[c] = [slot |-> Terminal(a), says |-> {}]
  BY <1>7 DEF TypeOK
<1> QED
  BY <1>1, <1>2, <1>3, <1>4, <1>5, <1>6, <1>7, <1>8

LEMMA ClaimsFile ==
  ASSUME TypeOK, NEW c \in Callers, Claims(c)
  PROVE  \E a \in ApprovalIds :
           /\ ~files[Terminal(a)].there /\ dirs[a] # "absent"
           /\ files'[Terminal(a)] = TornFile
           /\ \A t \in Slots : t # Terminal(a) => files'[t] = files[t]
<1>1. PICK a \in ApprovalIds : a = call[c].approval
  BY CallTyped DEF Claims
<1>2. Terminal(a) \in Slots
  BY SlotFacts
<1>3. files' = [files EXCEPT ![Terminal(a)] = TornFile]
  BY <1>1 DEF Claims
<1>4. /\ files'[Terminal(a)] = TornFile
      /\ \A t \in Slots : t # Terminal(a) => files'[t] = files[t]
  BY <1>2, <1>3 DEF TypeOK
<1>5. Consumable(a)
  BY <1>1 DEF Claims
<1>6. ~files[Terminal(a)].there /\ dirs[a] # "absent"
  BY <1>5 DEF Consumable, ApprovalLoads
<1> QED
  BY <1>4, <1>6

\* The file s of a step: as it was, created, written, or with a flag set.
Created(s) == ~files[s].there /\ files'[s] = TornFile /\ dirs[s[2]] # "absent"

Written(s) ==
  \E c \in Callers :
    /\ s = work[c].slot /\ pc[c] = "write" /\ files[s].there /\ ~files[s].good
    /\ files'[s] = [files[s] EXCEPT !.good = TRUE, !.synced = FALSE, !.says = work[c].says]

Flagged(s) ==
  /\ files[s].there
  /\ \/ files'[s] = [files[s] EXCEPT !.synced = TRUE]
     \/ files'[s] = [files[s] EXCEPT !.linked = TRUE]

LEMMA FileChange ==
  ASSUME TypeOK, FilesInv, WorkInv, [Next]_vars, ~PowerLoss, NEW s \in Slots
  PROVE  files'[s] = files[s] \/ Created(s) \/ Written(s) \/ Flagged(s)
<1>1. ASSUME NEW c \in Callers, FileMoves(c), NEW w, w = work[c].slot
      PROVE  files'[s] = files[s] \/ Created(s) \/ Written(s) \/ Flagged(s)
  <2>1. WriteAt(c) /\ w \in Slots /\ dirs[w[2]] # "absent"
    BY <1>1, FileMoveFrame, AtWork DEF WriteAt
  <2>2. CASE OpenFile(c)
    <3>1. /\ pc[c] = "open" /\ files'[w] = TornFile /\ (s # w => files'[s] = files[s])
      BY <1>1, <2>1, <2>2, FileStepShape DEF OpenFile
    <3>2. ~files[w].there
      BY <1>1, <2>1, <3>1 DEF WriteAt
    <3> QED
      BY <2>1, <3>1, <3>2 DEF Created
  <2>3. CASE WriteFile(c)
    <3>1. /\ pc[c] = "write" /\ (s # w => files'[s] = files[s])
          /\ files'[w] = [files[w] EXCEPT !.good = TRUE, !.synced = FALSE, !.says = work[c].says]
      BY <1>1, <2>1, <2>3, FileStepShape DEF WriteFile
    <3>2. files[w].there /\ ~files[w].good
      BY <1>1, <2>1, <3>1 DEF WriteAt
    <3> QED
      BY <1>1, <3>1, <3>2 DEF Written
  <2>4. CASE SyncFile(c) \/ SyncClaim(c)
    <3>1. /\ pc[c] # "open" /\ (s # w => files'[s] = files[s])
          /\ files'[w] = [files[w] EXCEPT !.synced = TRUE]
      BY <1>1, <2>1, <2>4, FileStepShape DEF SyncFile, SyncClaim
    <3>2. files[w].there
      BY <1>1, <2>1, <3>1 DEF WriteAt
    <3> QED
      BY <3>1, <3>2 DEF Flagged
  <2>5. CASE SyncDirectory(c) \/ SyncClaimDirectory(c)
    BY <2>5, LinkFilesShape DEF SyncDirectory, SyncClaimDirectory, Flagged
  <2>6. CASE SyncParent(c)
    BY <2>6 DEF SyncParent
  <2> QED
    BY <1>1, <2>2, <2>3, <2>4, <2>5, <2>6 DEF FileMoves
<1>2. ASSUME NEW c \in Callers, Claims(c)
      PROVE  files'[s] = files[s] \/ Created(s)
  <2>1. PICK a \in ApprovalIds :
          /\ ~files[Terminal(a)].there /\ dirs[a] # "absent"
          /\ files'[Terminal(a)] = TornFile
          /\ \A t \in Slots : t # Terminal(a) => files'[t] = files[t]
    BY <1>2, ClaimsFile
  <2>2. s = Terminal(a) => s[2] = a
    BY SlotFacts
  <2> QED
    BY <2>1, <2>2 DEF Created
<1>3. ASSUME NEW c \in Callers, Turns(c), ~Claims(c)
      PROVE  files' = files
  BY <1>3 DEF Turns, StartCreate, Skips, Expires, Makes, Rescans, Rules, Begins, Stamps
<1>4. ASSUME NEW c \in Callers, Ends(c) PROVE files' = files
  BY <1>4, EndShape
<1>5. ASSUME NEW c \in Callers, Begin(c) \/ Acquire(c) PROVE files' = files
  BY <1>5, BeginShape DEF Acquire
<1>6. UNCHANGED vars \/ Tick \/ SetBack => files' = files
  BY DEF vars, Tick, SetBack
<1> QED
  BY <1>1, <1>2, <1>3, <1>4, <1>5, <1>6, NextCases DEF Moves

LEMMA DirChange ==
  ASSUME TypeOK, FilesInv, WorkInv, [Next]_vars, ~PowerLoss,
         NEW i \in ChallengeIds \cup ApprovalIds
  PROVE  /\ drawn \subseteq drawn'
         /\ \/ dirs'[i] = dirs[i]
            \/ dirs[i] = "made" /\ dirs'[i] = "linked"
            \/ dirs[i] = "absent" /\ dirs'[i] = "made" /\ i \in drawn'
<1>1. DOMAIN dirs = ChallengeIds \cup ApprovalIds
  BY DEF TypeOK
<1>2. ASSUME NEW c \in Callers, SyncParent(c)
      PROVE  drawn' = drawn /\ (dirs'[i] = dirs[i] \/ (dirs[i] = "made" /\ dirs'[i] = "linked"))
  <2>1. dirs' = [k \in DOMAIN dirs |->
                  IF dirs[k] = "made" /\ (k \in ChallengeIds <=> work[c].slot[2] \in ChallengeIds)
                  THEN "linked" ELSE dirs[k]] /\ drawn' = drawn
    BY <1>2 DEF SyncParent
  <2> QED
    BY <1>1, <2>1
<1>3. ASSUME NEW c \in Callers, FileMoves(c), ~SyncParent(c)
      PROVE  dirs' = dirs /\ drawn' = drawn
  BY <1>3 DEF FileMoves, OpenFile, WriteFile, SyncFile, SyncClaim, SyncDirectory,
              SyncClaimDirectory, FileStep, LinkFiles
<1>4. ASSUME NEW c \in Callers, Makes(c)
      PROVE  /\ drawn \subseteq drawn'
             /\ \/ dirs'[i] = dirs[i]
                \/ dirs[i] = "absent" /\ dirs'[i] = "made" /\ i \in drawn'
  <2>1. PICK x \in ChallengeIds :
          x \notin drawn /\ drawn' = drawn \cup {x} /\ dirs' = [dirs EXCEPT ![x] = "made"]
    BY <1>4, MakesShape DEF WorkInv
  <2>2. dirs[x] = "absent"
    BY <2>1 DEF FilesInv
  <2> QED
    BY <1>1, <2>1, <2>2
<1>5. ASSUME NEW c \in Callers, Begins(c)
      PROVE  /\ drawn \subseteq drawn'
             /\ \/ dirs'[i] = dirs[i]
                \/ dirs[i] = "absent" /\ dirs'[i] = "made" /\ i \in drawn'
  <2>1. PICK a \in ApprovalIds :
          /\ pc[c] = "written" /\ call[c].op = "decide" /\ a \in Wrote(c).link
          /\ Wrote(c).word = "approved"
          /\ dirs' = [dirs EXCEPT ![a] = "made"] /\ drawn' = drawn
    BY <1>5, BeginsShape
  <2>2. WritesFor(c, Wrote(c)) /\ Fits(work[c].slot, Wrote(c))
    BY <2>1, WroteShape
  <2>3. work[c].slot[1] # "approval"
    BY <2>1, <2>2 DEF Fits
  <2>4. dirs[a] = "absent" /\ a \in drawn
    BY <2>1, <2>2, <2>3, SlotFacts DEF WritesFor
  <2> QED
    BY <1>1, <2>1, <2>4
<1>6. ASSUME NEW c \in Callers, Rules(c) PROVE dirs' = dirs /\ drawn \subseteq drawn'
  BY <1>6 DEF Rules
<1>7. ASSUME NEW c \in Callers, Turns(c), ~Makes(c), ~Begins(c), ~Rules(c)
      PROVE  dirs' = dirs /\ drawn' = drawn
  BY <1>7 DEF Turns, StartCreate, Skips, Expires, Rescans, Claims, Stamps
<1>8. ASSUME NEW c \in Callers, Ends(c) PROVE dirs' = dirs /\ drawn' = drawn
  BY <1>8, EndShape
<1>9. ASSUME NEW c \in Callers, Begin(c) \/ Acquire(c) PROVE dirs' = dirs /\ drawn' = drawn
  BY <1>9, BeginShape DEF Acquire
<1>10. UNCHANGED vars \/ Tick \/ SetBack => dirs' = dirs /\ drawn' = drawn
  BY DEF vars, Tick, SetBack
<1> QED
  BY <1>2, <1>3, <1>4, <1>5, <1>6, <1>7, <1>8, <1>9, <1>10, NextCases DEF Moves

\* A file that can be read stays so, unless power is lost.
LEMMA GoodStays ==
  ASSUME TypeOK, FilesInv, WorkInv, [Next]_vars, ~PowerLoss, NEW s \in Slots
  PROVE  /\ files[s].there => files'[s].there
         /\ files[s].good => /\ files'[s].good /\ files'[s].says = files[s].says
                             /\ Says(s)' = Says(s)
                             /\ files[s].synced => files'[s].synced
                             /\ files[s].linked => files'[s].linked
<1>1. files[s] \in [there : BOOLEAN, good : BOOLEAN, synced : BOOLEAN,
                    linked : BOOLEAN, says : SUBSET Records]
  BY FileTyped
<1>2. CASE files'[s] = files[s]
  BY <1>2 DEF Says
<1>3. CASE Created(s)
  BY <1>3 DEF Created, FilesInv, NoFile
<1>4. CASE Written(s)
  <2>1. PICK b : files'[s] = [files[s] EXCEPT !.good = TRUE, !.synced = FALSE, !.says = b]
                 /\ ~files[s].good
    BY <1>4 DEF Written
  <2> QED
    BY <1>1, <2>1, FlagsSet
<1>5. CASE Flagged(s)
  <2>1. /\ files'[s].there = files[s].there /\ files'[s].good = files[s].good
        /\ files'[s].says = files[s].says
        /\ files[s].synced => files'[s].synced
        /\ files[s].linked => files'[s].linked
    <3>1. CASE files'[s] = [files[s] EXCEPT !.synced = TRUE]
      BY <1>1, <3>1, FlagsSet
    <3>2. CASE files'[s] = [files[s] EXCEPT !.linked = TRUE]
      BY <1>1, <3>2, FlagsSet
    <3> QED
      BY <1>5, <3>1, <3>2 DEF Flagged
  <2> QED
    BY <2>1 DEF Says
<1> QED
  BY <1>2, <1>3, <1>4, <1>5, FileChange

\* What is durable stays, whatever happens.
LEMMA DurableStays ==
  ASSUME TypeOK, FilesInv, WorkInv, [Next]_vars, NEW s \in Slots, Durable(s)
  PROVE  Durable(s)' /\ Says(s)' = Says(s) /\ files'[s].says = files[s].says
<1>1. s[2] \in ChallengeIds \cup ApprovalIds
  BY SlotFacts
<1>2. CASE PowerLoss
  <2>1. files'[s] = [files[s] EXCEPT !.synced = TRUE, !.linked = TRUE] /\ dirs'[s[2]] = "linked"
    BY <1>1, <1>2, LossShape DEF Durable, Whole
  <2>2. files[s] \in [there : BOOLEAN, good : BOOLEAN, synced : BOOLEAN,
                      linked : BOOLEAN, says : SUBSET Records]
    BY FileTyped
  <2>3. /\ files'[s].there /\ files'[s].good /\ files'[s].synced /\ files'[s].linked
        /\ files'[s].says = files[s].says
    BY <2>1, <2>2, FlagsSet DEF Durable, Whole
  <2> QED
    BY <2>1, <2>3 DEF Durable, Whole, Says
<1>3. CASE ~PowerLoss
  BY <1>1, <1>3, GoodStays, DirChange DEF Durable, Whole
<1> QED
  BY <1>2, <1>3

LEMMA ApprovesStays ==
  ASSUME TypeOK, FilesInv, WorkInv, [Next]_vars, NEW x \in ChallengeIds, NEW a, Approves(x, a)
  PROVE  Approves(x, a)'
BY DurableStays, SlotFacts DEF Approves

LEMMA FitsStays ==
  ASSUME TypeOK, FilesInv, WorkInv, asked \subseteq asked', [Next]_vars,
         NEW s \in Slots, NEW b, Fits(s, b)
  PROVE  Fits(s, b)'
<1>1. ASSUME Grants(b, s[2]) PROVE Grants(b, s[2])'
  BY <1>1, ApprovesStays DEF Grants
<1> QED
  BY <1>1 DEF Fits

-----------------------------------------------------------------------------

(* What is told, and what is used. *)

UseType ==
  [approval : ApprovalIds, run : Runs, proposal : Proposals, at : Nat,
   challenge : SUBSET ChallengeIds]

\* What a decision tells is what durable files say.
LEMMA ReportsShape ==
  ASSUME TypeOK, WorkInv, NEW c \in Callers, Reports(c)
  PROVE  \E x \in ChallengeIds :
           \/ \E a \in ApprovalIds :
                /\ told' = told \cup {[challenge |-> x, word |-> "approved", link |-> {a}]}
                /\ Approves(x, a) /\ Durable(Approval(a))
           \/ /\ told' = told \cup {[challenge |-> x, word |-> "rejected", link |-> {}]}
              /\ Durable(Decision(x))
              /\ Says(Decision(x)).word = "rejected" /\ Says(Decision(x)).link = {}
<1>1. /\ pc[c] = "written" /\ call[c].op = "decide"
      /\ \/ /\ Wrote(c).word = "granted"
            /\ told' = told \cup {[challenge |-> call[c].challenge, word |-> "approved",
                                   link |-> {work[c].slot[2]}]}
         \/ /\ Wrote(c).word = "rejected"
            /\ told' = told \cup {[challenge |-> call[c].challenge, word |-> "rejected",
                                   link |-> {}]}
  BY DEF Reports
<1>2. call[c].challenge \in ChallengeIds
  BY <1>1, CallTyped
<1>3. /\ Wrote(c) \in Records
      /\ Fits(work[c].slot, Wrote(c)) /\ WritesFor(c, Wrote(c))
      /\ work[c].slot \in Slots /\ Durable(work[c].slot) /\ Says(work[c].slot) = Wrote(c)
  BY <1>1, WroteShape
<1>4. \/ work[c].slot = Decision(call[c].challenge)
      \/ (\E a \in ApprovalIds : work[c].slot = Approval(a)) /\ Wrote(c).link = {call[c].challenge}
  BY <1>1, <1>3 DEF WritesFor
<1>5. CASE Wrote(c).word = "granted"
  <2>1. work[c].slot[1] # "decision"
    BY <1>3, <1>5 DEF Fits
  <2>2. PICK a \in ApprovalIds : work[c].slot = Approval(a)
    BY <1>4, <2>1, SlotFacts
  <2>3. Wrote(c).link = {call[c].challenge} /\ work[c].slot[1] = "approval" /\ work[c].slot[2] = a
    BY <1>4, <2>1, <2>2, SlotFacts
  <2>4. Grants(Wrote(c), a)
    BY <1>3, <2>3 DEF Fits
  <2>5. Approves(call[c].challenge, a)
    BY <2>3, <2>4 DEF Grants
  <2>6. told' = told \cup {[challenge |-> call[c].challenge, word |-> "approved", link |-> {a}]}
    BY <1>1, <1>5, <2>3
  <2> QED
    BY <1>2, <1>3, <2>2, <2>5, <2>6
<1>6. CASE Wrote(c).word = "rejected"
  <2>1. work[c].slot[1] # "approval"
    BY <1>3, <1>6 DEF Fits
  <2>2. work[c].slot = Decision(call[c].challenge)
    BY <1>4, <2>1, SlotFacts
  <2>3. Wrote(c).link = {}
    BY <1>3, <1>6, <2>2, SlotFacts DEF Fits
  <2>4. told' = told \cup {[challenge |-> call[c].challenge, word |-> "rejected", link |-> {}]}
    BY <1>1, <1>6
  <2> QED
    BY <1>2, <1>3, <1>6, <2>2, <2>3, <2>4
<1> QED
  BY <1>1, <1>5, <1>6

\* A use rests on the decision of a human who asked for it, in time, and is the
\* first of its approval.
LEMMA UsesShape ==
  ASSUME TypeOK, FilesInv, WorkInv, NEW c \in Callers, Uses(c)
  PROVE  \E u \in UseType :
           /\ uses' = Append(uses, u)
           /\ \A i \in DOMAIN uses : uses[i].approval # u.approval
           /\ Durable(Terminal(u.approval))
           /\ Says(Terminal(u.approval)).word = "consumed"
           /\ Says(Terminal(u.approval)).link = {u.run}
           /\ \E x \in ChallengeIds : u.challenge = {x} /\ Approves(x, u.approval)
           /\ \E h \in asked :
                /\ u.challenge = {h.challenge} /\ u.proposal = h.proposal
                /\ h.at <= u.at /\ u.at < h.at + ApprovalLifetime
<1> DEFINE a == call[c].approval
           g == Says(Approval(a))
           u == [approval |-> a, run |-> call[c].run, proposal |-> call[c].proposal,
                 at |-> Wrote(c).from, challenge |-> g.link]
<1>1. pc[c] = "written" /\ call[c].op = "consume" /\ Wrote(c).word = "consumed"
      /\ uses' = Append(uses, u)
  BY DEF Uses
<1>2. a \in ApprovalIds /\ call[c].run \in Runs /\ call[c].proposal \in Proposals
  BY <1>1, CallTyped
<1>3. /\ Wrote(c) \in Records /\ WritesFor(c, Wrote(c))
      /\ Durable(work[c].slot) /\ Says(work[c].slot) = Wrote(c)
  BY <1>1, WroteShape
<1>4. ClaimAt(c)
  BY <1>1 DEF WorkInv, WritingPCs
<1>5. g \in Records /\ Grants(g, a)
  <2>1. Approval(a) \in Slots /\ files[Approval(a)].good
    BY <1>2, <1>4, SlotFacts DEF ClaimAt, Whole
  <2> QED
    BY <2>1, Readable, SlotFacts DEF Fits
<1>6. PICK x \in ChallengeIds :
        /\ g.link = {x} /\ Approves(x, a)
        /\ [challenge |-> x, proposal |-> g.proposal, at |-> g.from] \in asked
  BY <1>5 DEF Grants
<1>7. /\ Wrote(c).link = {call[c].run} /\ g.from <= Wrote(c).from /\ Wrote(c).from < g.until
      /\ work[c].slot = Terminal(a) /\ g.proposal = call[c].proposal
      /\ \A i \in DOMAIN uses : uses[i].approval # a
  BY <1>1, <1>3, <1>4 DEF WritesFor, ClaimAt
<1>8. Wrote(c).from \in Nat
  BY <1>3 DEF Records
<1>9. /\ u \in UseType /\ u.approval = a /\ u.run = call[c].run /\ u.challenge = {x}
      /\ u.proposal = g.proposal /\ u.at = Wrote(c).from
  BY <1>2, <1>6, <1>7, <1>8 DEF UseType
<1>10. g.until = g.from + ApprovalLifetime
  BY <1>5 DEF Grants
<1> HIDE DEF u, g, a
<1>11. \E h \in asked : /\ u.challenge = {h.challenge} /\ u.proposal = h.proposal
                        /\ h.at <= u.at /\ u.at < h.at + ApprovalLifetime
  <2> DEFINE h == [challenge |-> x, proposal |-> g.proposal, at |-> g.from]
  <2>1. h \in asked /\ h.challenge = x /\ h.proposal = g.proposal /\ h.at = g.from
    BY <1>6
  <2> HIDE DEF h
  <2> QED
    BY <1>7, <1>9, <1>10, <2>1
<1> QED
  BY <1>1, <1>3, <1>6, <1>7, <1>9, <1>11

LEMMA UsesPlus ==
  ASSUME TypeOK, NEW u \in UseType, uses' = Append(uses, u)
  PROVE  /\ uses' \in Seq(UseType)
         /\ \A i \in DOMAIN uses' :
              \/ i \in DOMAIN uses /\ uses'[i] = uses[i]
              \/ i = Len(uses) + 1 /\ i \notin DOMAIN uses /\ uses'[i] = u
<1>1. uses \in Seq(UseType)
  BY DEF TypeOK, UseType
<1> QED
  BY <1>1

LEMMA HistoryChange ==
  ASSUME TypeOK, [Next]_vars
  PROVE  /\ told' = told \/ \E c \in Callers : Reports(c)
         /\ uses' = uses \/ \E c \in Callers : Uses(c)
<1>1. ASSUME NEW c \in Callers, FileMoves(c) \/ Turns(c) PROVE told' = told /\ uses' = uses
  BY <1>1, FileMoveFrame, TurnFrame
<1>2. ASSUME NEW c \in Callers, Ends(c)
      PROVE  (told' = told \/ Reports(c)) /\ (uses' = uses \/ Uses(c))
  BY <1>2, EndShape
<1>3. ASSUME NEW c \in Callers, Begin(c) \/ Acquire(c) PROVE told' = told /\ uses' = uses
  BY <1>3, BeginShape DEF Acquire
<1>4. UNCHANGED vars \/ Tick \/ SetBack \/ PowerLoss => told' = told /\ uses' = uses
  BY DEF vars, Tick, SetBack, PowerLoss
<1> QED
  BY <1>1, <1>2, <1>3, <1>4, NextCases DEF Moves

-----------------------------------------------------------------------------

(* Type correctness. *)

LEMMA FilesTyped ==
  ASSUME TypeOK, FilesInv, WorkInv, [Next]_vars
  PROVE  files' \in [Slots -> [there : BOOLEAN, good : BOOLEAN, synced : BOOLEAN,
                               linked : BOOLEAN, says : SUBSET Records]]
<1> DEFINE Files == [there : BOOLEAN, good : BOOLEAN, synced : BOOLEAN,
                     linked : BOOLEAN, says : SUBSET Records]
<1>1. files' = [s \in Slots |-> files'[s]]
  <2>1. DOMAIN files = Slots /\ files = [s \in Slots |-> files[s]]
    BY DEF TypeOK
  <2>2. ASSUME NEW c \in Callers, FileMoves(c) PROVE files' = [s \in Slots |-> files'[s]]
    <3>1. CASE OpenFile(c) \/ WriteFile(c) \/ SyncFile(c) \/ SyncClaim(c)
      BY <2>1, <3>1 DEF OpenFile, WriteFile, SyncFile, SyncClaim, FileStep
    <3>2. CASE SyncDirectory(c) \/ SyncClaimDirectory(c)
      BY <3>2, LinkFilesShape DEF SyncDirectory, SyncClaimDirectory
    <3>3. CASE SyncParent(c)
      BY <2>1, <3>3 DEF SyncParent
    <3> QED
      BY <2>2, <3>1, <3>2, <3>3 DEF FileMoves
  <2>3. ASSUME NEW c \in Callers, Claims(c) PROVE files' = [s \in Slots |-> files'[s]]
    <3>1. PICK t : files' = [files EXCEPT ![t] = TornFile]
      BY <2>3 DEF Claims
    <3> QED
      BY ONLY <2>1, <3>1
  <2>4. ASSUME NEW c \in Callers, Turns(c), ~Claims(c) PROVE files' = files
    BY <2>4 DEF Turns, StartCreate, Skips, Expires, Makes, Rescans, Rules, Begins, Stamps
  <2>5. ASSUME NEW c \in Callers, Ends(c) \/ Begin(c) \/ Acquire(c) PROVE files' = files
    BY <2>5, EndShape, BeginShape DEF Acquire
  <2>6. UNCHANGED vars \/ Tick \/ SetBack => files' = files
    BY DEF vars, Tick, SetBack
  <2>7. PowerLoss => files' = [s \in Slots |-> files'[s]]
    BY LossShape
  <2> QED
    BY <2>1, <2>2, <2>3, <2>4, <2>5, <2>6, <2>7, NextCases DEF Moves
<1>2. ASSUME NEW s \in Slots PROVE files'[s] \in Files
  <2>1. files[s] \in Files
    BY FileTyped
  <2>2. CASE PowerLoss
    <3>1. \/ files'[s] = NoFile
          \/ files'[s] = [TornFile EXCEPT !.synced = TRUE, !.linked = TRUE]
          \/ files'[s] = [files[s] EXCEPT !.synced = TRUE, !.linked = TRUE]
      BY <2>2, LossShape
    <3>2. [files[s] EXCEPT !.synced = TRUE, !.linked = TRUE] \in Files
      BY <2>1, FlagTyped
    <3> QED
      BY <3>1, <3>2, EmptyFiles
  <2>3. CASE ~PowerLoss
    <3>1. CASE files'[s] = files[s]
      BY <2>1, <3>1
    <3>2. CASE Created(s)
      BY <3>2, EmptyFiles DEF Created
    <3>3. CASE Written(s)
      <4>1. PICK b \in SUBSET Records :
              files'[s] = [files[s] EXCEPT !.good = TRUE, !.synced = FALSE, !.says = b]
        BY <3>3 DEF Written, TypeOK
      <4>2. [files[s] EXCEPT !.good = TRUE, !.synced = FALSE, !.says = b] \in Files
        BY <2>1, FlagTyped
      <4> QED
        BY <4>1, <4>2
    <3>4. CASE Flagged(s)
      BY <2>1, <3>4, FlagTyped DEF Flagged
    <3> QED
      BY <2>3, <3>1, <3>2, <3>3, <3>4, FileChange
  <2> QED
    BY <2>2, <2>3
<1> QED
  BY <1>1, <1>2

LEMMA DirsTyped ==
  ASSUME TypeOK, FilesInv, WorkInv, [Next]_vars
  PROVE  /\ dirs' \in [ChallengeIds \cup ApprovalIds -> {"absent", "made", "linked"}]
         /\ drawn' \subseteq ChallengeIds \cup ApprovalIds
<1> DEFINE Dirs == [ChallengeIds \cup ApprovalIds -> {"absent", "made", "linked"}]
<1>1. dirs \in Dirs /\ drawn \subseteq ChallengeIds \cup ApprovalIds
      /\ DOMAIN dirs = ChallengeIds \cup ApprovalIds
  BY DEF TypeOK
<1>2. ASSUME NEW c \in Callers, FileMoves(c) PROVE dirs' \in Dirs /\ drawn' = drawn
  <2>1. CASE SyncParent(c)
    BY <1>1, <2>1 DEF SyncParent
  <2>2. CASE ~SyncParent(c)
    BY <1>1, <1>2, <2>2 DEF FileMoves, OpenFile, WriteFile, SyncFile, SyncClaim, SyncDirectory,
              SyncClaimDirectory, FileStep, LinkFiles
  <2> QED
    BY <2>1, <2>2
<1>3. ASSUME NEW c \in Callers, Makes(c)
      PROVE  dirs' \in Dirs /\ drawn' \subseteq ChallengeIds \cup ApprovalIds
  <2>1. PICK x \in ChallengeIds :
          drawn' = drawn \cup {x} /\ dirs' = [dirs EXCEPT ![x] = "made"]
    BY <1>3, MakesShape DEF WorkInv
  <2> QED
    BY <1>1, <2>1
<1>4. ASSUME NEW c \in Callers, Begins(c)
      PROVE  dirs' \in Dirs /\ drawn' = drawn
  <2>1. PICK a \in ApprovalIds : dirs' = [dirs EXCEPT ![a] = "made"] /\ drawn' = drawn
    BY <1>4, BeginsShape
  <2> QED
    BY <1>1, <2>1
<1>5. ASSUME NEW c \in Callers, Rules(c)
      PROVE  dirs' = dirs /\ drawn' \subseteq ChallengeIds \cup ApprovalIds
  BY <1>1, <1>5, RulesShape
<1>6. ASSUME NEW c \in Callers, Turns(c), ~Makes(c), ~Begins(c), ~Rules(c)
      PROVE  dirs' = dirs /\ drawn' = drawn
  BY <1>6 DEF Turns, StartCreate, Skips, Expires, Rescans, Claims, Stamps
<1>7. ASSUME NEW c \in Callers, Ends(c) \/ Begin(c) \/ Acquire(c)
      PROVE  dirs' = dirs /\ drawn' = drawn
  BY <1>7, EndShape, BeginShape DEF Acquire
<1>8. UNCHANGED vars \/ Tick \/ SetBack => dirs' = dirs /\ drawn' = drawn
  BY DEF vars, Tick, SetBack
<1>9. ASSUME PowerLoss PROVE dirs' \in Dirs /\ drawn' = drawn
  <2>1. dirs' \in [ChallengeIds \cup ApprovalIds -> {"absent", "linked"}]
    BY <1>9, LossShape
  <2>2. dirs' \in Dirs
    BY ONLY <2>1
  <2> QED
    BY <1>9, <2>2 DEF PowerLoss
<1> HIDE DEF Dirs
<1>10. dirs' \in Dirs /\ drawn' \subseteq ChallengeIds \cup ApprovalIds
  BY <1>1, <1>2, <1>3, <1>4, <1>5, <1>6, <1>7, <1>8, <1>9, NextCases DEF Moves
<1> QED
  BY <1>10 DEF Dirs

LocalOK ==
  /\ lock \subseteq Callers
  /\ pc \in [Callers -> PCs] /\ call \in [Callers -> AllCalls]
  /\ now \in [Callers -> Nat] /\ todo \in [Callers -> SUBSET ChallengeIds]
  /\ work \in [Callers -> [slot : Slots \cup {<<>>}, says : SUBSET Records]]

LEMMA LeaveTyped ==
  ASSUME TypeOK, NEW c \in Callers, Leave(c)
  PROVE  LocalOK'
BY DEF Leave, Go, LocalOK, TypeOK, PCs, AllCalls, NoWork

LEMMA TurnedTyped ==
  ASSUME TypeOK, NEW c \in Callers, NEW next \in PCs, NEW slot, NEW b, Turned(c, next, slot, b)
  PROVE  /\ pc' \in [Callers -> PCs]
         /\ work' \in [Callers -> [slot : Slots \cup {<<>>}, says : SUBSET Records]]
BY DEF Turned, TypeOK

LEMMA LocalTyped ==
  ASSUME TypeOK, FilesInv, WorkInv, [Next]_vars
  PROVE  LocalOK'
<1> USE DEF LocalOK
<1>0. LocalOK
  BY DEF TypeOK
<1>1. CASE UNCHANGED vars \/ Tick \/ SetBack
  BY <1>0, <1>1 DEF vars, Tick, SetBack
<1>2. CASE PowerLoss
  BY <1>2 DEF PowerLoss, PCs, AllCalls, NoWork
<1>3. ASSUME NEW c \in Callers, Begin(c) PROVE LocalOK'
  BY <1>0, <1>3, BeginShape DEF PCs
<1>4. ASSUME NEW c \in Callers, Acquire(c) PROVE LocalOK'
  BY <1>0, <1>4 DEF Acquire, Go, PCs
<1>5. ASSUME NEW c \in Callers, FileMoves(c) PROVE LocalOK'
  <2>1. UNCHANGED <<lock, local>>
    BY <1>5, FileMoveFrame
  <2>2. \E next \in PCs : Go(c, next)
    <3>1. CASE OpenFile(c) \/ WriteFile(c) \/ SyncFile(c) \/ SyncClaim(c)
      BY <3>1 DEF OpenFile, WriteFile, SyncFile, SyncClaim, FileStep, PCs
    <3>2. CASE SyncDirectory(c) \/ SyncClaimDirectory(c) \/ SyncParent(c)
      BY <3>2 DEF SyncDirectory, SyncClaimDirectory, LinkFiles, SyncParent, PCs
    <3> QED
      BY <1>5, <3>1, <3>2 DEF FileMoves
  <2> QED
    BY <1>0, <2>1, <2>2 DEF Go
<1>6. ASSUME NEW c \in Callers, Turns(c) PROVE LocalOK'
  <2>0. UNCHANGED <<lock, call, now>>
    BY <1>6, TurnFrame
  <2>1. CASE StartCreate(c)
    <3>1. \E S \in SUBSET ChallengeIds : todo' = [todo EXCEPT ![c] = S]
      BY <2>1 DEF StartCreate
    <3> QED
      BY <1>0, <2>1, <3>1 DEF StartCreate, Go, PCs
  <2>2. CASE Skips(c)
    <3>1. PICK x : todo' = [todo EXCEPT ![c] = @ \ {x}]
      BY <2>2 DEF Skips
    <3>2. todo' \in [Callers -> SUBSET ChallengeIds]
      BY ONLY <1>0, <3>1 DEF LocalOK
    <3> QED
      BY <1>0, <2>2, <3>2 DEF Skips
  <2>3. CASE Expires(c)
    <3>1. PICK x \in ChallengeIds, b \in Records :
            Turned(c, "open", Decision(x), b) /\ todo' = [todo EXCEPT ![c] = @ \ {x}]
      BY <2>3, ExpiresShape
    <3>2. todo' \in [Callers -> SUBSET ChallengeIds]
      BY ONLY <1>0, <3>1 DEF LocalOK
    <3> QED
      BY <1>0, <2>0, <3>1, <3>2, TurnedTyped DEF PCs
  <2>4. CASE Makes(c)
    <3>1. PICK x \in ChallengeIds, b \in Records :
            Turned(c, "open", Challenge(x), b) /\ todo' = todo
      BY <2>4, MakesShape DEF WorkInv
    <3> QED
      BY <1>0, <2>0, <3>1, TurnedTyped DEF PCs
  <2>5. CASE Rescans(c)
    BY <1>0, <2>5 DEF Rescans, Go, PCs
  <2>6. CASE Rules(c)
    <3>1. PICK x \in ChallengeIds, b \in Records :
            Turned(c, "open", Decision(x), b) /\ todo' = todo
      BY <2>6, RulesShape
    <3> QED
      BY <1>0, <2>0, <3>1, TurnedTyped DEF PCs
  <2>7. CASE Begins(c)
    <3>1. PICK x \in ApprovalIds, b \in Records :
            Turned(c, "open", Approval(x), b) /\ todo' = todo
      BY <2>7, BeginsShape
    <3> QED
      BY <1>0, <2>0, <3>1, TurnedTyped DEF PCs
  <2>8. CASE Claims(c)
    <3>1. PICK a \in ApprovalIds :
            /\ Terminal(a) \in Slots /\ todo' = todo
            /\ work' = [work EXCEPT ![c] = [slot |-> Terminal(a), says |-> {}]]
            /\ pc' = [pc EXCEPT ![c] = "claimSync"]
      BY <2>8, ClaimsShape
    <3> QED
      BY <1>0, <2>0, <3>1 DEF PCs
  <2>9. CASE Stamps(c)
    <3>1. PICK b \in Records :
            Turned(c, "write", work[c].slot, b) /\ todo' = todo
      BY <2>9, StampsShape
    <3> QED
      BY <1>0, <2>0, <3>1, TurnedTyped DEF PCs
  <2> QED
    BY <1>6, <2>1, <2>2, <2>3, <2>4, <2>5, <2>6, <2>7, <2>8, <2>9 DEF Turns
<1>7. ASSUME NEW c \in Callers, Ends(c) PROVE LocalOK'
  BY <1>7, EndShape, LeaveTyped
<1> QED
  BY <1>1, <1>2, <1>3, <1>4, <1>5, <1>6, <1>7, NextCases DEF Moves

LEMMA HistoryTyped ==
  ASSUME TypeOK, FilesInv, WorkInv, AskedInv, [Next]_vars
  PROVE  /\ asked' \subseteq [challenge : ChallengeIds, proposal : Proposals, at : Nat]
         /\ told' \subseteq [challenge : ChallengeIds, word : {"approved", "rejected"},
                            link : SUBSET ApprovalIds]
         /\ uses' \in Seq(UseType)
<1>1. asked' = asked \/ \E c \in Callers : Begin(c)
  BY NextCases, MoveFrame DEF vars, Tick, SetBack, PowerLoss, Acquire
<1>2. asked' \subseteq [challenge : ChallengeIds, proposal : Proposals, at : Nat]
  BY <1>1, BeginShape DEF TypeOK
<1>3. ASSUME NEW c \in Callers, Reports(c)
      PROVE  told' \subseteq [challenge : ChallengeIds, word : {"approved", "rejected"},
                              link : SUBSET ApprovalIds]
  <2>1. PICK x \in ChallengeIds :
          \/ \E a \in ApprovalIds :
               told' = told \cup {[challenge |-> x, word |-> "approved", link |-> {a}]}
          \/ told' = told \cup {[challenge |-> x, word |-> "rejected", link |-> {}]}
    BY <1>3, ReportsShape
  <2> QED
    BY <2>1 DEF TypeOK
<1>4. ASSUME NEW c \in Callers, Uses(c) PROVE uses' \in Seq(UseType)
  BY <1>4, UsesShape, UsesPlus
<1> QED
  BY <1>2, <1>3, <1>4, HistoryChange DEF TypeOK, UseType

LEMMA SpentMore ==
  ASSUME NEW n \in [calls : Nat, setbacks : Nat, losses : Nat]
  PROVE  /\ [n EXCEPT !.calls = @ + 1] \in [calls : Nat, setbacks : Nat, losses : Nat]
         /\ [n EXCEPT !.setbacks = @ + 1] \in [calls : Nat, setbacks : Nat, losses : Nat]
         /\ [n EXCEPT !.losses = @ + 1] \in [calls : Nat, setbacks : Nat, losses : Nat]
         /\ [n EXCEPT !.calls = @ + 1].losses = n.losses
         /\ [n EXCEPT !.setbacks = @ + 1].losses = n.losses
         /\ [n EXCEPT !.losses = @ + 1].losses = n.losses + 1
OBVIOUS

LEMMA BoundsTyped ==
  ASSUME TypeOK, [Next]_vars
  PROVE  /\ clock' \in Nat /\ scene' \in Scenarios
         /\ spent' \in [calls : Nat, setbacks : Nat, losses : Nat]
         /\ spent'.losses = 0 => spent.losses = 0 /\ ~PowerLoss
<1> USE DEF TypeOK
<1>1. ASSUME PowerLoss PROVE spent' = [spent EXCEPT !.losses = @ + 1] /\ UNCHANGED <<clock, scene>>
  <2>1. Spend("losses") /\ clock' = clock
    BY <1>1 DEF PowerLoss
  <2> QED
    BY <2>1 DEF Spend
<1>2. PowerLoss => spent'.losses # 0
  BY <1>1
<1>3. CASE UNCHANGED vars \/ Tick
  BY <1>2, <1>3 DEF vars, Tick
<1>4. CASE SetBack
  <2>1. Spend("setbacks") /\ clock > 0 /\ clock' = clock - 1
    BY <1>4 DEF SetBack
  <2>2. spent' = [spent EXCEPT !.setbacks = @ + 1] /\ scene' = scene
    BY <2>1 DEF Spend
  <2>3. spent' \in [calls : Nat, setbacks : Nat, losses : Nat] /\ spent'.losses = spent.losses
    BY <2>2, SpentMore
  <2> QED
    BY <1>2, <2>1, <2>2, <2>3
<1>5. ASSUME NEW c \in Callers, Begin(c)
      PROVE  /\ UNCHANGED <<clock, scene>>
             /\ spent' = [spent EXCEPT !.calls = @ + 1]
  BY <1>5, BeginShape
<1>6. ASSUME NEW c \in Callers, Acquire(c) \/ Moves(c) PROVE UNCHANGED <<clock, scene, spent>>
  BY <1>6, MoveFrame DEF Acquire
<1>7. CASE \E c \in Callers : Begin(c)
  <2>1. spent' = [spent EXCEPT !.calls = @ + 1] /\ UNCHANGED <<clock, scene>>
    BY <1>5, <1>7
  <2>2. spent' \in [calls : Nat, setbacks : Nat, losses : Nat] /\ spent'.losses = spent.losses
    BY <2>1, SpentMore
  <2> QED
    BY <1>2, <2>1, <2>2
<1>8. CASE \E c \in Callers : Acquire(c) \/ Moves(c)
  BY <1>2, <1>6, <1>8
<1>9. CASE PowerLoss
  BY <1>1, <1>2, <1>9
<1> QED
  BY <1>3, <1>4, <1>7, <1>8, <1>9, NextCases

LEMMA TypeStep ==
  ASSUME TypeOK, FilesInv, WorkInv, AskedInv, [Next]_vars
  PROVE  TypeOK'
BY FilesTyped, DirsTyped, LocalTyped, HistoryTyped, BoundsTyped DEF TypeOK, LocalOK, UseType

-----------------------------------------------------------------------------

(* The files: none without its directory, none that says what it may not. *)

\* A directory stays, unless power is lost.
LEMMA DirStays ==
  ASSUME TypeOK, FilesInv, WorkInv, [Next]_vars, ~PowerLoss,
         NEW i \in ChallengeIds \cup ApprovalIds, dirs[i] # "absent"
  PROVE  dirs'[i] # "absent" /\ (dirs[i] = "linked" => dirs'[i] = "linked")
BY DirChange

\* What a step adds to a file.
LEMMA FileNow ==
  ASSUME TypeOK, FilesInv, WorkInv, [Next]_vars, NEW s \in Slots
  PROVE  /\ files'[s].there => dirs'[s[2]] # "absent"
         /\ ~files'[s].there => files'[s] = NoFile
         /\ files'[s].good =>
              \/ files[s].good /\ files'[s].says = files[s].says
              \/ \E b : files'[s].says = {b} /\ Fits(s, b)
<1>1. /\ files[s] \in [there : BOOLEAN, good : BOOLEAN, synced : BOOLEAN,
                       linked : BOOLEAN, says : SUBSET Records]
      /\ s[2] \in ChallengeIds \cup ApprovalIds
      /\ files[s].there => dirs[s[2]] # "absent"
      /\ ~files[s].there => files[s] = NoFile
  BY FileTyped, SlotFacts DEF FilesInv
<1>2. CASE PowerLoss
  <2>1. CASE files'[s] = NoFile
    BY <2>1, EmptyFiles
  <2>2. CASE /\ files[s].there
             /\ dirs'[s[2]] = "absent" => dirs[s[2]] = "absent"
             /\ files'[s] = [TornFile EXCEPT !.synced = TRUE, !.linked = TRUE]
    BY <1>1, <2>2, EmptyFiles
  <2>3. CASE /\ files[s].there
             /\ dirs'[s[2]] = "absent" => dirs[s[2]] = "absent"
             /\ files'[s] = [files[s] EXCEPT !.synced = TRUE, !.linked = TRUE]
    <3>1. /\ files'[s].there = files[s].there /\ files'[s].good = files[s].good
          /\ files'[s].says = files[s].says
      BY <1>1, <2>3, FlagsSet
    <3> QED
      BY <1>1, <2>3, <3>1
  <2> QED
    BY <1>2, <2>1, <2>2, <2>3, LossShape
<1>3. CASE ~PowerLoss
  <2>0. files[s].there => dirs'[s[2]] # "absent"
    BY <1>1, <1>3, DirStays
  <2>1. CASE files'[s] = files[s]
    BY <1>1, <2>0, <2>1
  <2>2. CASE Created(s)
    <3>1. dirs'[s[2]] # "absent"
      BY <1>1, <1>3, <2>2, DirStays DEF Created
    <3> QED
      BY <2>2, <3>1, EmptyFiles DEF Created
  <2>3. CASE Written(s)
    <3>1. PICK c \in Callers :
            /\ s = work[c].slot /\ pc[c] = "write" /\ files[s].there
            /\ files'[s] = [files[s] EXCEPT !.good = TRUE, !.synced = FALSE, !.says = work[c].says]
      BY <2>3 DEF Written
    <3>2. files'[s].there /\ files'[s].says = work[c].says
      BY <1>1, <3>1, FlagsSet
    <3>3. WriteAt(c)
      BY <3>1, AtWork DEF WritingPCs
    <3>4. \E b : work[c].says = {b} /\ Fits(s, b)
      BY <3>1, <3>3 DEF WriteAt, WritingPCs
    <3> QED
      BY <2>0, <3>1, <3>2, <3>4
  <2>4. CASE Flagged(s)
    <3>1. /\ files'[s].there = files[s].there /\ files'[s].good = files[s].good
          /\ files'[s].says = files[s].says
      <4>1. CASE files'[s] = [files[s] EXCEPT !.synced = TRUE]
        BY <1>1, <4>1, FlagsSet
      <4>2. CASE files'[s] = [files[s] EXCEPT !.linked = TRUE]
        BY <1>1, <4>2, FlagsSet
      <4> QED
        BY <2>4, <4>1, <4>2 DEF Flagged
    <3> QED
      BY <2>0, <2>4, <3>1 DEF Flagged
  <2> QED
    BY <1>3, <2>1, <2>2, <2>3, <2>4, FileChange
<1> QED
  BY <1>2, <1>3

LEMMA FilesStep ==
  ASSUME TypeOK, FilesInv, WorkInv, AskedInv, [Next]_vars
  PROVE  FilesInv'
<1>1. ASSUME NEW i \in ChallengeIds \cup ApprovalIds, dirs'[i] # "absent" PROVE i \in drawn'
  <2>1. CASE PowerLoss
    BY <1>1, <2>1, LossShape DEF PowerLoss, FilesInv
  <2>2. CASE ~PowerLoss
    BY <1>1, <2>2, DirChange DEF FilesInv
  <2> QED
    BY <2>1, <2>2
<1>2. ASSUME NEW s \in Slots, files'[s].good
      PROVE  \E b \in files'[s].says : files'[s].says = {b} /\ Fits(s, b)'
  <2>1. PICK b : files'[s].says = {b} /\ Fits(s, b)
    <3>1. files[s].good => \E b \in files[s].says : files[s].says = {b} /\ Fits(s, b)
      BY DEF FilesInv
    <3> QED
      BY <1>2, <3>1, FileNow
  <2>2. Fits(s, b)'
    BY <2>1, FitsStays, AskedStep
  <2> QED
    BY <2>1, <2>2
<1> QED
  BY <1>1, <1>2, FileNow DEF FilesInv

-----------------------------------------------------------------------------

(* The work of a caller. *)

WorkOf(c) ==
  /\ pc[c] = "scan" => call[c].op = "create"
  /\ pc[c] \in ClaimingPCs => call[c].op = "consume"
  /\ pc[c] \in ClaimingPCs \cup WritingPCs => WriteAt(c)
  /\ pc[c] \in ClaimingPCs \cup WritingPCs /\ call[c].op = "consume" => ClaimAt(c)

\* How far a file f has come when its writer, who has says to write, is at step
\* next, and its directory is as dir says.
Progress(next, f, says, dir) ==
  /\ dir # "absent"
  /\ next = "open" <=> ~f.there
  /\ f.good <=> next \in {"sync", "syncDir", "syncParent", "written"}
  /\ f.good => f.says = says
  /\ next \in {"syncDir", "syncParent", "written"} => f.synced
  /\ next \in {"syncParent", "written"} => f.linked
  /\ next = "written" => dir = "linked"

LEMMA WriteAtParts ==
  ASSUME NEW c \in Callers
  PROVE  WriteAt(c) <=>
           /\ work[c].slot \in Slots
           /\ Progress(pc[c], files[work[c].slot], work[c].says, dirs[work[c].slot[2]])
           /\ pc[c] \in WritingPCs =>
                \E b \in work[c].says :
                  work[c].says = {b} /\ Fits(work[c].slot, b) /\ WritesFor(c, b)
BY DEF WriteAt, Progress

FileType == [there : BOOLEAN, good : BOOLEAN, synced : BOOLEAN,
             linked : BOOLEAN, says : SUBSET Records]

\* One step further.
LEMMA FileMoveAt ==
  ASSUME TypeOK, FilesInv, WorkInv, NEW c \in Callers, FileMoves(c)
  PROVE  /\ work' = work /\ call' = call /\ uses' = uses
         /\ work[c].slot \in Slots
         /\ Progress(pc'[c], files'[work[c].slot], work[c].says, dirs'[work[c].slot[2]])
         /\ \/ pc[c] \in WritingPCs /\ pc'[c] \in WritingPCs \ {"open"}
            \/ pc[c] \in ClaimingPCs /\ pc'[c] \in ClaimingPCs
         /\ \A i \in ChallengeIds \cup ApprovalIds : dirs[i] = "absent" => dirs'[i] = "absent"
         /\ drawn' = drawn
<1> DEFINE s == work[c].slot
<1>0. UNCHANGED <<drawn, call, work, uses>> /\ pc[c] \in WritingPCs \cup ClaimingPCs
  BY FileMoveFrame
<1>1. s \in Slots /\ WriteAt(c) /\ s[2] \in ChallengeIds \cup ApprovalIds
  BY <1>0, AtWork, SlotFacts
<1>2. Progress(pc[c], files[s], work[c].says, dirs[s[2]])
  BY <1>1, WriteAtParts
<1>3. files[s] \in FileType
  BY <1>1, FileTyped DEF FileType
<1> DEFINE Goal == /\ Progress(pc'[c], files'[s], work[c].says, dirs'[s[2]])
                   /\ \/ pc[c] \in WritingPCs /\ pc'[c] \in WritingPCs \ {"open"}
                      \/ pc[c] \in ClaimingPCs /\ pc'[c] \in ClaimingPCs
                   /\ \A i \in ChallengeIds \cup ApprovalIds :
                        dirs[i] = "absent" => dirs'[i] = "absent"
<1> HIDE DEF s
<1>4. ASSUME OpenFile(c) PROVE Goal
  <2>1. pc[c] = "open" /\ pc'[c] = "write" /\ dirs' = dirs /\ files'[s] = TornFile
    BY <1>1, <1>4, FileStepShape DEF OpenFile, s
  <2> QED
    BY <1>2, <1>3, <2>1, EmptyFiles DEF Progress, WritingPCs
<1>5. ASSUME WriteFile(c) PROVE Goal
  <2>1. /\ pc[c] = "write" /\ pc'[c] = "sync" /\ dirs' = dirs
        /\ files'[s] = [files[s] EXCEPT !.good = TRUE, !.synced = FALSE, !.says = work[c].says]
    BY <1>1, <1>5, FileStepShape DEF WriteFile, s
  <2> QED
    BY <1>2, <1>3, <2>1 DEF Progress, FileType, WritingPCs
<1>6. ASSUME SyncFile(c) \/ SyncClaim(c) PROVE Goal
  <2>1. /\ \/ pc[c] = "sync" /\ pc'[c] = "syncDir"
           \/ pc[c] = "claimSync" /\ pc'[c] = "claimSyncDir"
        /\ dirs' = dirs /\ files'[s] = [files[s] EXCEPT !.synced = TRUE]
    BY <1>1, <1>6, FileStepShape DEF SyncFile, SyncClaim, s
  <2> QED
    BY <1>2, <1>3, <2>1 DEF Progress, FileType, WritingPCs, ClaimingPCs
<1>7. ASSUME SyncDirectory(c) \/ SyncClaimDirectory(c) PROVE Goal
  <2>1. /\ \/ pc[c] = "syncDir" /\ pc'[c] = "syncParent"
           \/ pc[c] = "claimSyncDir" /\ pc'[c] = "stamp"
        /\ dirs' = dirs
        /\ files[s].there => files'[s] = [files[s] EXCEPT !.linked = TRUE]
    BY <1>1, <1>7, LinkFilesShape DEF SyncDirectory, SyncClaimDirectory, s
  <2>2. files[s].there
    BY <1>2, <2>1 DEF Progress
  <2> QED
    BY <1>2, <1>3, <2>1, <2>2 DEF Progress, FileType, WritingPCs, ClaimingPCs
<1>8. ASSUME SyncParent(c) PROVE Goal
  <2>1. pc[c] = "syncParent" /\ pc'[c] = "written" /\ files' = files
    BY <1>8 DEF SyncParent, Go, TypeOK
  <2>2. \A i \in ChallengeIds \cup ApprovalIds :
          dirs'[i] = IF dirs[i] = "made" /\ (i \in ChallengeIds <=> s[2] \in ChallengeIds)
                     THEN "linked" ELSE dirs[i]
    BY <1>8 DEF SyncParent, TypeOK, s
  <2>3. dirs'[s[2]] = "linked"
    BY <1>1, <1>2, <2>2 DEF Progress, TypeOK
  <2> QED
    BY <1>2, <1>3, <2>1, <2>2, <2>3 DEF Progress, FileType, WritingPCs
<1>9. Goal
  BY <1>4, <1>5, <1>6, <1>7, <1>8 DEF FileMoves
<1> QED
  BY <1>0, <1>1, <1>9 DEF s

\* What a consumption has checked before its claim stays true.
LEMMA ClaimStays ==
  ASSUME TypeOK, FilesInv, WorkInv, [Next]_vars, ~PowerLoss, NEW c \in Callers,
         ClaimAt(c), call[c].op = "consume",
         call'[c] = call[c], work'[c].slot = work[c].slot, uses' = uses
  PROVE  ClaimAt(c)' /\ Says(Approval(call[c].approval))' = Says(Approval(call[c].approval))
<1>1. call[c].approval \in ApprovalIds
  BY CallTyped
<1>2. /\ work[c].slot = Terminal(call[c].approval)
      /\ Whole(Approval(call[c].approval))
      /\ Says(Approval(call[c].approval)).proposal = call[c].proposal
      /\ \A i \in DOMAIN uses : uses[i].approval # call[c].approval
  BY DEF ClaimAt
<1>3. Whole(Approval(call[c].approval))'
      /\ Says(Approval(call[c].approval))' = Says(Approval(call[c].approval))
  BY <1>1, <1>2, GoodStays, SlotFacts DEF Whole
<1> QED
  BY <1>2, <1>3 DEF ClaimAt, Terminal

\* Where nothing that a caller sees has changed, its work is as it was.
LEMMA WorkStays ==
  ASSUME TypeOK, FilesInv, WorkInv, AskedInv, [Next]_vars, NEW c \in Callers,
         UNCHANGED <<store, uses>>,
         pc'[c] = pc[c], call'[c] = call[c], work'[c] = work[c]
  PROVE  WorkOf(c)'
<1>1. WorkOf(c)
  BY DEF WorkInv, WorkOf
<1>2. ASSUME NEW b, WritesFor(c, b) PROVE WritesFor(c, b)'
  BY <1>2 DEF WritesFor, Says
<1>3. ASSUME NEW s \in Slots, NEW b, Fits(s, b) PROVE Fits(s, b)'
  BY <1>3, FitsStays, AskedStep
<1>4. ASSUME WriteAt(c) PROVE WriteAt(c)'
  <2>1. /\ work[c].slot \in Slots
        /\ Progress(pc[c], files[work[c].slot], work[c].says, dirs[work[c].slot[2]])
        /\ pc[c] \in WritingPCs =>
             \E b \in work[c].says :
               work[c].says = {b} /\ Fits(work[c].slot, b) /\ WritesFor(c, b)
    BY <1>4, WriteAtParts
  <2>2. pc[c] \in WritingPCs =>
          \E b \in work[c].says :
            work[c].says = {b} /\ Fits(work[c].slot, b)' /\ WritesFor(c, b)'
    BY <1>2, <1>3, <2>1
  <2> QED
    BY <2>1, <2>2 DEF WriteAt, Progress
<1>5. ClaimAt(c) => ClaimAt(c)'
  BY DEF ClaimAt, Whole, Says
<1> QED
  BY <1>1, <1>4, <1>5 DEF WorkOf

\* A caller that moves a file on is where it should be.
LEMMA FileMoveWork ==
  ASSUME TypeOK, FilesInv, WorkInv, AskedInv, [Next]_vars, ~PowerLoss,
         NEW c \in Callers, FileMoves(c)
  PROVE  WorkOf(c)'
<1> DEFINE s == work[c].slot
<1>1. /\ work' = work /\ call' = call /\ uses' = uses
      /\ s \in Slots
      /\ Progress(pc'[c], files'[s], work[c].says, dirs'[s[2]])
      /\ \/ pc[c] \in WritingPCs /\ pc'[c] \in WritingPCs \ {"open"}
         \/ pc[c] \in ClaimingPCs /\ pc'[c] \in ClaimingPCs
      /\ \A i \in ChallengeIds \cup ApprovalIds : dirs[i] = "absent" => dirs'[i] = "absent"
      /\ drawn' = drawn
  BY FileMoveAt
<1>2. WorkOf(c)
  BY DEF WorkInv, WorkOf
<1>3. ASSUME pc[c] \in WritingPCs \cup ClaimingPCs, call[c].op = "consume"
      PROVE  ClaimAt(c)' /\ Says(Approval(call[c].approval))' = Says(Approval(call[c].approval))
  BY <1>1, <1>2, <1>3, ClaimStays DEF WorkOf
<1>4. ASSUME pc[c] \in WritingPCs, NEW b, Fits(s, b), WritesFor(c, b)
      PROVE  Fits(s, b)' /\ WritesFor(c, b)'
  <2>1. Fits(s, b)'
    BY <1>1, <1>4, FitsStays, AskedStep
  <2>2. pc'[c] # "open" /\ call[c].op \in {"none", "create", "decide", "consume"}
    BY <1>1, <1>4, CallTyped DEF WritingPCs, ClaimingPCs
  <2>3. CASE call[c].op = "create"
    <3>1. \E x \in ChallengeIds :
            work[c].slot = Challenge(x) \/ (work[c].slot = Decision(x) /\ b.word = "expired")
      BY <1>4, <2>3 DEF WritesFor
    <3>2. call'[c].op = "create" /\ work'[c].slot = work[c].slot
      BY <1>1, <2>3
    <3> QED
      BY <2>1, <3>1, <3>2 DEF WritesFor
  <2>4. CASE call[c].op = "decide"
    <3>1. \/ /\ s = Decision(call[c].challenge)
             /\ b.word = "approved" =>
                  /\ call[c].verdict = "approve"
                  /\ \A a \in b.link : dirs[a] = "absent" /\ a \in drawn
          \/ (\E a \in ApprovalIds : s = Approval(a)) /\ b.link = {call[c].challenge}
      BY <1>4, <2>4 DEF WritesFor
    <3>2. \A a \in drawn : a \in ChallengeIds \cup ApprovalIds
      BY DEF TypeOK
    <3>3. \A a \in b.link : dirs[a] = "absent" /\ a \in drawn => dirs'[a] = "absent" /\ a \in drawn'
      BY <1>1, <3>2
    <3>4. call'[c] = call[c] /\ call'[c].op = "decide" /\ work'[c].slot = work[c].slot
      BY <1>1, <2>4
    <3> QED
      BY <2>1, <3>1, <3>3, <3>4 DEF WritesFor
  <2>5. CASE call[c].op = "consume"
    <3>1. /\ s = Terminal(call[c].approval)
          /\ b.word = "consumed" =>
               /\ b.link = {call[c].run}
               /\ Says(Approval(call[c].approval)).from <= b.from
               /\ b.from < Says(Approval(call[c].approval)).until
      BY <1>4, <2>5 DEF WritesFor
    <3>2. Says(Approval(call[c].approval))' = Says(Approval(call[c].approval))
      BY <1>3, <1>4, <2>5
    <3>3. (b.word = "consumed" =>
               /\ b.link = {call[c].run}
               /\ Says(Approval(call[c].approval)).from <= b.from
               /\ b.from < Says(Approval(call[c].approval)).until)'
      BY <1>1, <3>1, <3>2
    <3>4. call'[c] = call[c] /\ call'[c].op = "consume" /\ work'[c].slot = work[c].slot
      BY <1>1, <2>5
    <3> QED
      BY <2>1, <2>2, <3>1, <3>3, <3>4 DEF WritesFor, Terminal
  <2>6. CASE call[c].op = "none"
    BY <1>4, <2>6 DEF WritesFor
  <2> QED
    BY <2>1, <2>2, <2>3, <2>4, <2>5, <2>6
<1>5. pc[c] \in WritingPCs =>
        \E b \in work[c].says : work[c].says = {b} /\ Fits(s, b) /\ WritesFor(c, b)
  BY <1>2, WriteAtParts DEF WorkOf
<1>6. pc[c] \in WritingPCs =>
        \E b \in work[c].says : work[c].says = {b} /\ Fits(s, b)' /\ WritesFor(c, b)'
  BY <1>4, <1>5
<1>7. pc'[c] \in WritingPCs => pc[c] \in WritingPCs
  BY <1>1 DEF WritingPCs, ClaimingPCs
<1>8. WriteAt(c)'
  BY <1>1, <1>6, <1>7 DEF WriteAt, Progress
<1>9. pc'[c] # "scan" /\ (pc'[c] \in ClaimingPCs => call'[c].op = "consume")
  BY <1>1, <1>2 DEF WorkOf, WritingPCs, ClaimingPCs
<1>10. call'[c].op = "consume" => ClaimAt(c)'
  BY <1>1, <1>3
<1> QED
  BY <1>8, <1>9, <1>10 DEF WorkOf

\* A caller that turns to a new file begins with nothing there.
LEMMA NewWork ==
  ASSUME FilesInv', NEW c \in Callers, NEW s, NEW b, Turned(c, "open", s, b),
         ~files'[s].there, dirs'[s[2]] # "absent",
         Fits(s, b)', WritesFor(c, b)', call'[c].op # "consume"
  PROVE  WorkOf(c)'
<1>1. s \in Slots /\ pc'[c] = "open" /\ work'[c].slot = s /\ work'[c].says = {b}
  BY DEF Turned
<1>2. ~files'[s].good
  BY <1>1, EmptyFiles DEF FilesInv
<1>3. WriteAt(c)'
  BY <1>1, <1>2 DEF WriteAt, WritingPCs
<1> QED
  BY <1>1, <1>3 DEF WorkOf, WritingPCs, ClaimingPCs

LEMMA ExpiresWork ==
  ASSUME TypeOK, FilesInv, FilesInv', WorkInv, NEW c \in Callers, Expires(c)
  PROVE  WorkOf(c)'
<1>1. PICK x \in ChallengeIds, b \in Records :
        /\ b.word = "expired" /\ b.link = {}
        /\ Turned(c, "open", Decision(x), b)
        /\ pc[c] = "scan" /\ dirs[x] # "absent" /\ ~Decided(x)
        /\ UNCHANGED <<store, call>>
  BY ExpiresShape
<1>2. call'[c].op = "create"
  BY <1>1 DEF WorkInv
<1>3. Fits(Decision(x), b)'
  BY <1>1, SlotFacts DEF Fits
<1>4. WritesFor(c, b)'
  <2>1. work'[c].slot = Decision(x)
    BY <1>1 DEF Turned
  <2> QED
    BY <1>1, <1>2, <2>1 DEF WritesFor
<1>5. ~files'[Decision(x)].there /\ dirs'[Decision(x)[2]] # "absent"
  BY <1>1, SlotFacts DEF Decided
<1> QED
  BY <1>1, <1>2, <1>3, <1>4, <1>5, NewWork

LEMMA MakesWork ==
  ASSUME TypeOK, FilesInv, FilesInv', WorkInv, NEW c \in Callers, Makes(c)
  PROVE  WorkOf(c)'
<1>1. PICK x \in ChallengeIds, b \in Records :
        /\ x \notin drawn /\ b.word = "asked"
        /\ Turned(c, "open", Challenge(x), b)
        /\ pc[c] = "scan" /\ dirs' = [dirs EXCEPT ![x] = "made"]
        /\ UNCHANGED <<files, call>>
  BY MakesShape DEF WorkInv
<1>2. call'[c].op = "create"
  BY <1>1 DEF WorkInv
<1>3. Fits(Challenge(x), b)'
  BY <1>1, SlotFacts DEF Fits
<1>4. WritesFor(c, b)'
  <2>1. work'[c].slot = Challenge(x)
    BY <1>1 DEF Turned
  <2> QED
    BY <1>1, <1>2, <2>1 DEF WritesFor
<1>5. ~files'[Challenge(x)].there /\ dirs'[Challenge(x)[2]] # "absent"
  <2>1. dirs'[x] = "made" /\ dirs[x] = "absent"
    BY <1>1 DEF TypeOK, FilesInv
  <2>2. Challenge(x) \in Slots /\ Challenge(x)[2] = x
    BY SlotFacts
  <2> QED
    BY <1>1, <2>1, <2>2 DEF FilesInv
<1> QED
  BY <1>1, <1>2, <1>3, <1>4, <1>5, NewWork

LEMMA RulesWork ==
  ASSUME TypeOK, FilesInv, FilesInv', WorkInv, NEW c \in Callers, Rules(c)
  PROVE  WorkOf(c)'
<1>1. PICK x \in ChallengeIds, b \in Records :
        /\ x = call[c].challenge /\ call[c].op = "decide"
        /\ dirs[x] # "absent" /\ ~Decided(x)
        /\ Turned(c, "open", Decision(x), b)
        /\ \/ b.word \in {"expired", "rejected"} /\ b.link = {} /\ drawn' = drawn
           \/ /\ b.word = "approved" /\ call[c].verdict = "approve"
              /\ \E a \in ApprovalIds : a \notin drawn /\ b.link = {a} /\ drawn' = drawn \cup {a}
        /\ UNCHANGED <<dirs, files, call>>
  BY RulesShape
<1>2. Fits(Decision(x), b)'
  BY <1>1, SlotFacts DEF Fits
<1>3. WritesFor(c, b)'
  <2>1. work'[c].slot = Decision(x)
    BY <1>1 DEF Turned
  <2>2. b.word = "approved" =>
          /\ call[c].verdict = "approve"
          /\ \A a \in b.link : dirs'[a] = "absent" /\ a \in drawn'
    BY <1>1 DEF FilesInv
  <2> QED
    BY <1>1, <2>1, <2>2 DEF WritesFor
<1>4. ~files'[Decision(x)].there /\ dirs'[Decision(x)[2]] # "absent"
  BY <1>1, SlotFacts DEF Decided
<1> QED
  BY <1>1, <1>2, <1>3, <1>4, NewWork

\* The approval that a decision has granted gets its record: what the decision
\* says, and when a human asked for it.
LEMMA BeginsWork ==
  ASSUME TypeOK, FilesInv, FilesInv', WorkInv, AskedInv, [Next]_vars,
         NEW c \in Callers, Begins(c)
  PROVE  /\ WorkOf(c)'
         /\ \E a \in ApprovalIds :
              /\ Approves(call[c].challenge, a) /\ call[c].challenge \in ChallengeIds
              /\ dirs' = [dirs EXCEPT ![a] = "made"]
<1>1. PICK a \in ApprovalIds, b \in Records :
        /\ pc[c] = "written" /\ call[c].op = "decide" /\ call[c].challenge \in ChallengeIds
        /\ a \in Wrote(c).link /\ Wrote(c).word = "approved"
        /\ Turned(c, "open", Approval(a), b)
        /\ b.word = "granted" /\ b.link = {call[c].challenge}
        /\ b.proposal = call[c].proposal /\ b.from = now[c] /\ b.until = now[c] + ApprovalLifetime
        /\ dirs' = [dirs EXCEPT ![a] = "made"]
        /\ UNCHANGED <<files, drawn, call>>
  BY BeginsShape
<1> DEFINE x == call[c].challenge
<1>2. /\ Fits(work[c].slot, Wrote(c)) /\ WritesFor(c, Wrote(c))
      /\ work[c].slot \in Slots /\ Durable(work[c].slot) /\ Says(work[c].slot) = Wrote(c)
  BY <1>1, WroteShape
<1>3. work[c].slot[1] # "approval"
  BY <1>1, <1>2 DEF Fits
<1>4. /\ work[c].slot = Decision(x) /\ call[c].verdict = "approve"
      /\ dirs[a] = "absent"
  BY <1>1, <1>2, <1>3, SlotFacts DEF WritesFor
<1>5. Wrote(c).link = {a}
  BY <1>1, <1>2, <1>4, SlotFacts DEF Fits
<1>6. Approves(x, a)
  BY <1>1, <1>2, <1>4, <1>5 DEF Approves
<1>7. Grants(b, a)'
  <2>1. Approves(x, a)'
    BY <1>1, <1>6, ApprovesStays
  <2>2. [challenge |-> x, proposal |-> b.proposal, at |-> b.from] \in asked'
    BY <1>1, <1>4, AskedStep DEF AskedInv
  <2> QED
    BY <1>1, <2>1, <2>2 DEF Grants
<1>8. Fits(Approval(a), b)'
  BY <1>1, <1>7, SlotFacts DEF Fits
<1>9. WritesFor(c, b)'
  <2>1. work'[c].slot = Approval(a) /\ call'[c] = call[c]
    BY <1>1 DEF Turned
  <2> QED
    BY <1>1, <2>1 DEF WritesFor
<1>10. ~files'[Approval(a)].there /\ dirs'[Approval(a)[2]] # "absent"
  <2>1. dirs'[a] = "made"
    BY <1>1 DEF TypeOK
  <2>2. Approval(a) \in Slots /\ Approval(a)[2] = a
    BY SlotFacts
  <2> QED
    BY <1>1, <1>4, <2>1, <2>2 DEF FilesInv
<1>11. call'[c].op # "consume"
  BY <1>1
<1>12. WorkOf(c)'
  BY <1>1, <1>8, <1>9, <1>10, <1>11, NewWork
<1> QED
  BY <1>1, <1>6, <1>12

\* Nobody has used an approval that is not claimed yet.
LEMMA ClaimsWork ==
  ASSUME TypeOK, FilesInv, WorkInv, ToldIsDurable, [Next]_vars, ~PowerLoss,
         NEW c \in Callers, Claims(c)
  PROVE  WorkOf(c)'
<1>1. PICK a \in ApprovalIds :
        /\ a = call[c].approval /\ call[c].op = "consume"
        /\ Says(Approval(a)).proposal = call[c].proposal
        /\ Terminal(a) \in Slots /\ ~files[Terminal(a)].there
        /\ dirs[a] # "absent" /\ files[Approval(a)].there /\ files[Approval(a)].good
        /\ files'[Terminal(a)] = TornFile
        /\ pc'[c] = "claimSync" /\ work'[c] = [slot |-> Terminal(a), says |-> {}]
        /\ UNCHANGED <<dirs, call, uses>>
  BY ClaimsShape
<1>2. \A i \in DOMAIN uses : uses[i].approval # a
  BY <1>1 DEF ToldIsDurable, Durable, Whole
<1>3. /\ files'[Approval(a)].there /\ files'[Approval(a)].good
      /\ Says(Approval(a))' = Says(Approval(a))
  BY <1>1, GoodStays, SlotFacts
<1>4. ClaimAt(c)'
  BY <1>1, <1>2, <1>3 DEF ClaimAt, Whole
<1>5. WriteAt(c)'
  BY <1>1, EmptyFiles, SlotFacts DEF WriteAt, WritingPCs
<1> QED
  BY <1>1, <1>4, <1>5 DEF WorkOf, ClaimingPCs, WritingPCs

LEMMA StampsWork ==
  ASSUME TypeOK, FilesInv, WorkInv, [Next]_vars, ~PowerLoss, NEW c \in Callers, Stamps(c)
  PROVE  WorkOf(c)'
<1>1. PICK b \in Records :
        /\ pc[c] = "stamp" /\ call[c].op = "consume" /\ work[c].slot = Terminal(call[c].approval)
        /\ WriteAt(c) /\ ClaimAt(c)
        /\ Turned(c, "write", work[c].slot, b)
        /\ b.word \in {"revoked", "expired", "consumed"}
        /\ b.word = "consumed" =>
             /\ b.link = {call[c].run}
             /\ Says(Approval(call[c].approval)).from <= b.from
             /\ b.from < Says(Approval(call[c].approval)).until
        /\ UNCHANGED <<store, call, uses>>
  BY StampsShape
<1>2. /\ pc'[c] = "write" /\ work'[c].slot = work[c].slot /\ work'[c].says = {b}
      /\ work[c].slot \in Slots /\ call'[c] = call[c]
  BY <1>1 DEF Turned
<1>3. Says(Approval(call[c].approval))' = Says(Approval(call[c].approval))
  BY <1>1 DEF Says, Approval
<1>4. ClaimAt(c)'
  BY <1>1, <1>2, <1>3, ClaimStays
<1>5. Fits(work[c].slot, b)'
  <2>1. call[c].approval \in ApprovalIds
    BY <1>1, CallTyped
  <2>2. work[c].slot[1] = "terminal"
    BY <1>1, <2>1, SlotFacts
  <2> QED
    BY <1>1, <1>2, <2>2 DEF Fits
<1>6. WritesFor(c, b)'
  <2>1. (b.word = "consumed" =>
               /\ b.link = {call[c].run}
               /\ Says(Approval(call[c].approval)).from <= b.from
               /\ b.from < Says(Approval(call[c].approval)).until)'
    BY <1>1, <1>2, <1>3
  <2>2. call'[c].op = "consume" /\ work'[c].slot = Terminal(call'[c].approval) /\ pc'[c] # "open"
    BY <1>1, <1>2
  <2> QED
    BY <2>1, <2>2 DEF WritesFor, Terminal
<1>7. Progress("write", files'[work[c].slot], {b}, dirs'[work[c].slot[2]])
  BY <1>1, WriteAtParts DEF Progress
<1>8. WriteAt(c)'
  BY <1>2, <1>5, <1>6, <1>7 DEF WriteAt, Progress
<1> QED
  BY <1>1, <1>2, <1>4, <1>8 DEF WorkOf, ClaimingPCs, WritingPCs

LEMMA WorkStep ==
  ASSUME TypeOK, LockInv, FilesInv, FilesInv', WorkInv, AskedInv, ToldIsDurable, [Next]_vars
  PROVE  WorkInv'
<1>1. ASSUME NEW c \in Callers, pc'[c] \notin {"scan"} \cup ClaimingPCs \cup WritingPCs
      PROVE  WorkOf(c)'
  BY <1>1 DEF WorkOf
<1>2. CASE PowerLoss
  <2>1. \A c \in Callers : pc'[c] = "idle"
    BY <1>2 DEF PowerLoss
  <2>2. \A c \in Callers : WorkOf(c)'
    BY <1>1, <2>1 DEF ClaimingPCs, WritingPCs
  <2> QED
    BY <2>2 DEF WorkInv, WorkOf
<1>3. CASE UNCHANGED vars \/ Tick \/ SetBack
  <2>1. UNCHANGED <<store, uses, pc, call, work>>
    BY <1>3 DEF vars, Tick, SetBack
  <2>2. \A c \in Callers : WorkOf(c)'
    BY <2>1, WorkStays
  <2> QED
    BY <2>2 DEF WorkInv, WorkOf
<1>4. ASSUME NEW c \in Callers, Begin(c) \/ Acquire(c) PROVE WorkInv'
  <2>1. /\ UNCHANGED <<store, uses, work>> /\ pc'[c] \in {"lock", "begin"}
        /\ \A d \in Callers : d # c => pc'[d] = pc[d] /\ call'[d] = call[d]
    <3>1. CASE Begin(c)
      <4>1. pc' = [pc EXCEPT ![c] = "lock"] /\ call' = [call EXCEPT ![c] = call'[c]]
            /\ UNCHANGED <<store, uses, work>>
        BY <3>1, BeginShape
      <4>2. DOMAIN pc = Callers /\ DOMAIN call = Callers
        BY DEF TypeOK
      <4> QED
        BY ONLY <1>4, <4>1, <4>2
    <3>2. CASE Acquire(c)
      BY <3>2 DEF Acquire, Go, TypeOK
    <3> QED
      BY <1>4, <3>1, <3>2
  <2>2. WorkOf(c)'
    BY <1>1, <2>1 DEF ClaimingPCs, WritingPCs
  <2>3. \A d \in Callers : d # c => WorkOf(d)'
    BY <2>1, WorkStays
  <2> QED
    BY <2>2, <2>3 DEF WorkInv, WorkOf
<1>5. ASSUME NEW c \in Callers, Moves(c), ~PowerLoss PROVE WorkOf(c)'
  <2>1. CASE FileMoves(c)
    BY <1>5, <2>1, FileMoveWork
  <2>2. CASE Ends(c)
    BY <1>1, <2>2, EndShape, LeaveShape DEF ClaimingPCs, WritingPCs
  <2>3. CASE StartCreate(c) \/ Skips(c) \/ Rescans(c)
    <3>1. pc'[c] = "scan" /\ call'[c].op = "create"
      BY <2>3 DEF StartCreate, Skips, Rescans, Go, TypeOK, WorkInv
    <3> QED
      BY <3>1 DEF WorkOf, ClaimingPCs, WritingPCs
  <2> QED
    BY <1>5, <2>1, <2>2, <2>3, ExpiresWork, MakesWork, RulesWork, BeginsWork, ClaimsWork,
       StampsWork DEF Moves, Turns
<1>6. ASSUME NEW c \in Callers, Moves(c), ~PowerLoss, NEW d \in Callers, d # c PROVE WorkOf(d)'
  <2>1. CASE pc[c] = "lock"
    <3>1. Ends(c)
      BY <1>6, <2>1, FileMoveFrame, TurnFrame DEF Moves, ClaimingPCs, WritingPCs
    <3>2. UNCHANGED <<store, uses>>
      BY <2>1, <3>1, EndShape DEF Reports, Uses
    <3> QED
      BY <1>6, <3>2, MoveFrame, WorkStays
  <2>2. CASE pc[c] # "lock"
    <3>1. pc[d] \in {"idle", "lock"} /\ pc'[d] = pc[d]
      BY <1>6, <2>2, MoveFrame, Alone
    <3> QED
      BY <1>1, <3>1 DEF ClaimingPCs, WritingPCs
  <2> QED
    BY <2>1, <2>2
<1>7. ASSUME NEW c \in Callers, Moves(c), ~PowerLoss PROVE WorkInv'
  BY <1>5, <1>6, <1>7 DEF WorkInv, WorkOf
<1> QED
  BY <1>2, <1>3, <1>4, <1>7, NextCases

-----------------------------------------------------------------------------

(* What was told, and what was used. *)

LEMMA DecisionStep ==
  ASSUME TypeOK, FilesInv, FilesInv', WorkInv, AskedInv, DecisionFirst, [Next]_vars
  PROVE  DecisionFirst'
<1>1. ASSUME NEW a \in ApprovalIds, dirs[a] # "absent"
      PROVE  \E x \in ChallengeIds : Approves(x, a)'
  BY <1>1, ApprovesStays DEF DecisionFirst
<1>2. ASSUME NEW c \in Callers, Begins(c), NEW a \in ApprovalIds, dirs[a] = "absent",
             dirs'[a] # "absent"
      PROVE  \E x \in ChallengeIds : Approves(x, a)'
  <2>1. PICK b \in ApprovalIds :
          /\ Approves(call[c].challenge, b) /\ call[c].challenge \in ChallengeIds
          /\ dirs' = [dirs EXCEPT ![b] = "made"]
    BY <1>2, BeginsWork
  <2>2. a = b
    BY <1>2, <2>1 DEF TypeOK
  <2>3. PICK x \in ChallengeIds : x = call[c].challenge /\ Approves(x, a)
    BY <2>1, <2>2
  <2> QED
    BY <2>3, ApprovesStays
<1>3. ASSUME NEW a \in ApprovalIds, dirs[a] = "absent", dirs'[a] # "absent"
      PROVE  \E c \in Callers : Begins(c)
  <2>1. ~PowerLoss
    BY <1>3, LossShape
  <2>2. ASSUME NEW c \in Callers, FileMoves(c) PROVE FALSE
    BY <1>3, <2>2, FileMoveAt
  <2>3. ASSUME NEW c \in Callers, Makes(c) PROVE FALSE
    <3>1. PICK x \in ChallengeIds : dirs' = [dirs EXCEPT ![x] = "made"]
      BY <2>3, MakesShape DEF WorkInv
    <3> QED
      BY <1>3, <3>1, IdsAssumption DEF TypeOK
  <2>4. ASSUME NEW c \in Callers, Turns(c), ~Makes(c), ~Begins(c) PROVE dirs' = dirs
    BY <2>4 DEF Turns, StartCreate, Skips, Expires, Rescans, Rules, Claims, Stamps
  <2>5. ASSUME NEW c \in Callers, Ends(c) \/ Begin(c) \/ Acquire(c) PROVE dirs' = dirs
    BY <2>5, EndShape, BeginShape DEF Acquire
  <2>6. UNCHANGED vars \/ Tick \/ SetBack => dirs' = dirs
    BY DEF vars, Tick, SetBack
  <2> QED
    BY <1>3, <2>1, <2>2, <2>3, <2>4, <2>5, <2>6, NextCases DEF Moves
<1>4. ASSUME NEW a \in ApprovalIds, dirs'[a] # "absent"
      PROVE  \E x \in ChallengeIds : Approves(x, a)'
  <2>1. CASE dirs[a] # "absent"
    BY <1>1, <2>1
  <2>2. CASE dirs[a] = "absent"
    <3>1. PICK c \in Callers : Begins(c)
      BY <1>3, <1>4, <2>2
    <3> QED
      BY <1>2, <1>4, <2>2, <3>1
  <2> QED
    BY <2>1, <2>2
<1> QED
  BY <1>4 DEF DecisionFirst

\* What one answer, and one use, rest on.
ToldHolds(t) ==
  /\ Durable(Decision(t.challenge))
  /\ Says(Decision(t.challenge)).word = t.word
  /\ Says(Decision(t.challenge)).link = t.link
  /\ \A a \in t.link : Durable(Approval(a))

UseHolds(u) ==
  /\ Durable(Terminal(u.approval))
  /\ Says(Terminal(u.approval)).word = "consumed"
  /\ Says(Terminal(u.approval)).link = {u.run}

LEMMA ToldStays ==
  ASSUME TypeOK, FilesInv, WorkInv, [Next]_vars,
         NEW t, t.challenge \in ChallengeIds, t.link \subseteq ApprovalIds, ToldHolds(t)
  PROVE  ToldHolds(t)'
<1>1. Durable(Decision(t.challenge))' /\ Says(Decision(t.challenge))' = Says(Decision(t.challenge))
  BY DurableStays, SlotFacts DEF ToldHolds
<1>2. \A a \in t.link : Durable(Approval(a))'
  BY DurableStays, SlotFacts DEF ToldHolds
<1> QED
  BY <1>1, <1>2 DEF ToldHolds

LEMMA UseStays ==
  ASSUME TypeOK, FilesInv, WorkInv, [Next]_vars,
         NEW u, u.approval \in ApprovalIds, UseHolds(u)
  PROVE  UseHolds(u)'
<1>1. Durable(Terminal(u.approval))' /\ Says(Terminal(u.approval))' = Says(Terminal(u.approval))
  BY DurableStays, SlotFacts DEF UseHolds
<1> QED
  BY <1>1 DEF UseHolds

LEMMA UsedTyped ==
  ASSUME TypeOK
  PROVE  /\ \A i \in DOMAIN uses : uses[i] \in UseType
         /\ \A i \in DOMAIN uses : uses[i].approval \in ApprovalIds
         /\ \A t \in told : t.challenge \in ChallengeIds /\ t.link \subseteq ApprovalIds
<1>1. uses \in Seq(UseType)
  BY DEF TypeOK, UseType
<1>2. \A i \in DOMAIN uses : uses[i] \in UseType
  BY <1>1
<1>3. \A u \in UseType : u.approval \in ApprovalIds
  BY DEF UseType
<1>4. \A t \in told : t.challenge \in ChallengeIds /\ t.link \subseteq ApprovalIds
  BY DEF TypeOK
<1> QED
  BY <1>2, <1>3, <1>4

LEMMA ToldStep ==
  ASSUME TypeOK, FilesInv, WorkInv, ToldIsDurable, [Next]_vars
  PROVE  ToldIsDurable'
<1>1. ASSUME NEW t \in told PROVE ToldHolds(t)'
  <2>1. ToldHolds(t)
    BY DEF ToldIsDurable, ToldHolds
  <2> QED
    BY <2>1, ToldStays, UsedTyped
<1>2. ASSUME NEW i \in DOMAIN uses, NEW u, u = uses[i] PROVE UseHolds(u)'
  <2>1. UseHolds(u)
    BY <1>2 DEF ToldIsDurable, UseHolds
  <2> QED
    BY <1>2, <2>1, UseStays, UsedTyped
<1>3. ASSUME NEW t \in told' PROVE ToldHolds(t)'
  <2>1. CASE told' = told
    BY <1>1, <2>1
  <2>2. CASE \E c \in Callers : Reports(c)
    <3>1. PICK x \in ChallengeIds :
           \/ \E a \in ApprovalIds :
                /\ told' = told \cup {[challenge |-> x, word |-> "approved", link |-> {a}]}
                /\ Approves(x, a) /\ Durable(Approval(a))
           \/ /\ told' = told \cup {[challenge |-> x, word |-> "rejected", link |-> {}]}
              /\ Durable(Decision(x))
              /\ Says(Decision(x)).word = "rejected" /\ Says(Decision(x)).link = {}
      BY <2>2, ReportsShape
    <3>2. CASE t \in told
      BY <1>1, <3>2
    <3>3. CASE t \notin told
      <4>1. t.challenge = x /\ t.link \subseteq ApprovalIds /\ ToldHolds(t)
        <5>1. CASE \E a \in ApprovalIds :
                     /\ told' = told \cup {[challenge |-> x, word |-> "approved", link |-> {a}]}
                     /\ Approves(x, a) /\ Durable(Approval(a))
          <6>1. PICK a \in ApprovalIds :
                  /\ t = [challenge |-> x, word |-> "approved", link |-> {a}]
                  /\ Approves(x, a) /\ Durable(Approval(a))
            BY <1>3, <3>3, <5>1
          <6>2. t.challenge = x /\ t.word = "approved" /\ t.link = {a}
            BY <6>1
          <6> QED
            BY <6>1, <6>2 DEF ToldHolds, Approves
        <5>2. CASE /\ told' = told \cup {[challenge |-> x, word |-> "rejected", link |-> {}]}
                   /\ Durable(Decision(x))
                   /\ Says(Decision(x)).word = "rejected" /\ Says(Decision(x)).link = {}
          <6>1. t = [challenge |-> x, word |-> "rejected", link |-> {}]
            BY <1>3, <3>3, <5>2
          <6>2. t.challenge = x /\ t.word = "rejected" /\ t.link = {}
            BY <6>1
          <6> QED
            BY <5>2, <6>2 DEF ToldHolds
        <5> QED
          BY <3>1, <5>1, <5>2
      <4> QED
        BY <4>1, ToldStays
    <3> QED
      BY <3>2, <3>3
  <2> QED
    BY <2>1, <2>2, HistoryChange
<1>4. ASSUME NEW i \in DOMAIN uses', NEW u, u = uses'[i] PROVE UseHolds(u)'
  <2>1. CASE uses' = uses
    BY <1>2, <1>4, <2>1
  <2>2. CASE \E c \in Callers : Uses(c)
    <3>1. PICK v \in UseType : uses' = Append(uses, v) /\ UseHolds(v)
      BY <2>2, UsesShape DEF UseHolds
    <3>2. v.approval \in ApprovalIds
      BY DEF UseType
    <3>3. UseHolds(v)'
      BY <3>1, <3>2, UseStays
    <3>4. (i \in DOMAIN uses /\ u = uses[i]) \/ u = v
      BY <1>4, <3>1, UsesPlus
    <3> QED
      BY <1>2, <3>3, <3>4
  <2> QED
    BY <2>1, <2>2, HistoryChange
<1>5. \A i \in DOMAIN uses' :
        /\ Durable(Terminal(uses[i].approval))'
        /\ (Says(Terminal(uses[i].approval)).word = "consumed")'
        /\ (Says(Terminal(uses[i].approval)).link = {uses[i].run})'
  <2>1. ASSUME NEW i \in DOMAIN uses'
        PROVE  /\ Durable(Terminal(uses[i].approval))'
               /\ (Says(Terminal(uses[i].approval)).word = "consumed")'
               /\ (Says(Terminal(uses[i].approval)).link = {uses[i].run})'
    <3>1. PICK u : u = uses'[i]
      OBVIOUS
    <3>2. UseHolds(u)'
      BY <1>4, <3>1
    <3> QED
      BY <3>1, <3>2 DEF UseHolds, Durable, Whole, Says, Terminal
  <2> QED
    BY <2>1
<1> QED
  BY <1>3, <1>5 DEF ToldIsDurable, ToldHolds

LEMMA UsesStep ==
  ASSUME TypeOK, FilesInv, WorkInv, UsesInv, [Next]_vars
  PROVE  UsesInv'
<1>1. ASSUME NEW i \in DOMAIN uses
      PROVE  \E x \in ChallengeIds : uses[i].challenge = {x} /\ (Approves(x, uses[i].approval)
               /\ \A a : a = uses[i].approval => Approves(x, a)')
  BY ApprovesStays DEF UsesInv
<1>2. CASE uses' = uses
  BY <1>1, <1>2 DEF UsesInv
<1>3. CASE \E c \in Callers : Uses(c)
  <2>1. PICK u \in UseType :
          /\ uses' = Append(uses, u)
          /\ \E x \in ChallengeIds : u.challenge = {x} /\ Approves(x, u.approval)
    BY <1>3, UsesShape
  <2>2. PICK x \in ChallengeIds : u.challenge = {x} /\ Approves(x, u.approval)'
    BY <2>1, ApprovesStays
  <2>3. ASSUME NEW i \in DOMAIN uses'
        PROVE  \E y \in ChallengeIds : uses'[i].challenge = {y} /\ Approves(y, uses[i].approval)'
    <3>1. CASE i \in DOMAIN uses /\ uses'[i] = uses[i]
      BY <1>1, <3>1
    <3>2. CASE uses'[i] = u
      BY <2>2, <3>2
    <3> QED
      BY <2>1, <3>1, <3>2, UsesPlus
  <2> QED
    BY <2>3 DEF UsesInv
<1> QED
  BY <1>2, <1>3, HistoryChange

\* No two uses of one approval, nor of two approvals of one challenge.
LEMMA OneUseStep ==
  ASSUME TypeOK, FilesInv, WorkInv, UsesInv, OneUse, [Next]_vars
  PROVE  OneUse'
<1>1. CASE uses' = uses
  BY <1>1 DEF OneUse
<1>2. CASE \E c \in Callers : Uses(c)
  <2>1. PICK u \in UseType :
          /\ uses' = Append(uses, u)
          /\ \A i \in DOMAIN uses : uses[i].approval # u.approval
          /\ \E x \in ChallengeIds : u.challenge = {x} /\ Approves(x, u.approval)
    BY <1>2, UsesShape
  <2>2. PICK x \in ChallengeIds : u.challenge = {x} /\ Approves(x, u.approval)
    BY <2>1
  <2>3. ASSUME NEW i \in DOMAIN uses PROVE uses[i].challenge # u.challenge
    <3>1. PICK y \in ChallengeIds : uses[i].challenge = {y} /\ Approves(y, uses[i].approval)
      BY DEF UsesInv
    <3>2. ASSUME x = y PROVE FALSE
      <4>1. Approves(x, uses[i].approval) /\ Approves(x, u.approval)
        BY <2>2, <3>1, <3>2
      <4>2. uses[i].approval = u.approval
        BY <4>1 DEF Approves
      <4> QED
        BY <2>1, <4>2
    <3> QED
      BY <2>2, <3>1, <3>2
  <2>4. \A i \in DOMAIN uses' :
          \/ i \in DOMAIN uses /\ uses'[i] = uses[i]
          \/ i = Len(uses) + 1 /\ i \notin DOMAIN uses /\ uses'[i] = u
    BY <2>1, UsesPlus
  <2>5. ASSUME NEW i \in DOMAIN uses', NEW j \in DOMAIN uses',
               uses'[i].approval = uses'[j].approval \/ uses'[i].challenge = uses'[j].challenge
        PROVE  i = j
    <3>1. CASE i \in DOMAIN uses /\ j \in DOMAIN uses
      BY <2>4, <2>5, <3>1 DEF OneUse
    <3>2. CASE i \notin DOMAIN uses /\ j \notin DOMAIN uses
      BY <2>4, <3>2
    <3>3. CASE i \in DOMAIN uses /\ j \notin DOMAIN uses
      BY <2>1, <2>3, <2>4, <2>5, <3>3
    <3>4. CASE i \notin DOMAIN uses /\ j \in DOMAIN uses
      BY <2>1, <2>3, <2>4, <2>5, <3>4
    <3> QED
      BY <3>1, <3>2, <3>3, <3>4
  <2> QED
    BY <2>5 DEF OneUse
<1> QED
  BY <1>1, <1>2, HistoryChange

\* The human behind a use.
Authorised(u, h) ==
  /\ u.challenge = {h.challenge} /\ u.proposal = h.proposal
  /\ h.at <= u.at /\ u.at < h.at + ApprovalLifetime

LEMMA AuthorisedStep ==
  ASSUME TypeOK, FilesInv, WorkInv, AskedInv, UseIsAuthorised, [Next]_vars
  PROVE  UseIsAuthorised'
<1> USE DEF Authorised
<1>1. \A i \in DOMAIN uses : \E h \in asked : Authorised(uses[i], h)
  BY DEF UseIsAuthorised
<1>2. asked \subseteq asked'
  BY AskedStep
<1>3. \A i \in DOMAIN uses' : \E h \in asked : Authorised(uses'[i], h)
  <2>1. CASE uses' = uses
    BY <1>1, <2>1
  <2>2. CASE \E c \in Callers : Uses(c)
    <3>1. PICK u \in UseType : uses' = Append(uses, u) /\ \E h \in asked : Authorised(u, h)
      BY <2>2, UsesShape
    <3> HIDE DEF Authorised
    <3> QED
      BY <1>1, <3>1, UsesPlus
  <2> QED
    BY <2>1, <2>2, HistoryChange
<1> QED
  BY <1>2, <1>3 DEF UseIsAuthorised

-----------------------------------------------------------------------------

(* One question at a time. *)

\* A creation makes a question; no other step does.
LEMMA OpenChange ==
  ASSUME TypeOK, FilesInv, WorkInv, [Next]_vars, ~PowerLoss
  PROVE  \/ Open' \subseteq Open
         \/ \E c \in Callers : Makes(c) /\ todo[c] = {} /\ \E x : Open' \subseteq Open \cup {x}
<1>1. ASSUME NEW x \in ChallengeIds, Decided(x) PROVE Decided(x)'
  BY <1>1, GoodStays, SlotFacts DEF Decided
<1>2. CASE \E c \in Callers : Makes(c)
  <2>1. PICK c \in Callers : Makes(c)
    BY <1>2
  <2>2. PICK x \in ChallengeIds : todo[c] = {} /\ dirs' = [dirs EXCEPT ![x] = "made"]
    BY <2>1, MakesShape DEF WorkInv
  <2>3. \A y \in ChallengeIds : y # x => dirs'[y] = dirs[y]
    BY <2>2 DEF TypeOK
  <2>4. Open' \subseteq Open \cup {x}
    BY <1>1, <2>3 DEF Open
  <2> QED
    BY <2>1, <2>2, <2>4
<1>3. CASE ~\E c \in Callers : Makes(c)
  <2>1. ASSUME NEW x \in ChallengeIds, dirs[x] = "absent" PROVE dirs'[x] = "absent"
    <3>1. ASSUME NEW c \in Callers, FileMoves(c) PROVE dirs'[x] = "absent"
      BY <2>1, <3>1, FileMoveAt
    <3>2. ASSUME NEW c \in Callers, Begins(c) PROVE dirs'[x] = "absent"
      <4>1. PICK a \in ApprovalIds : dirs' = [dirs EXCEPT ![a] = "made"]
        BY <3>2, BeginsShape
      <4> QED
        BY <2>1, <4>1, IdsAssumption DEF TypeOK
    <3>3. ASSUME NEW c \in Callers, Turns(c), ~Makes(c), ~Begins(c) PROVE dirs' = dirs
      BY <3>3 DEF Turns, StartCreate, Skips, Expires, Rescans, Rules, Claims, Stamps
    <3>4. ASSUME NEW c \in Callers, Ends(c) \/ Begin(c) \/ Acquire(c) PROVE dirs' = dirs
      BY <3>4, EndShape, BeginShape DEF Acquire
    <3>5. UNCHANGED vars \/ Tick \/ SetBack => dirs' = dirs
      BY DEF vars, Tick, SetBack
    <3> QED
      BY <1>3, <2>1, <3>1, <3>2, <3>3, <3>4, <3>5, NextCases DEF Moves
  <2> QED
    BY <1>1, <2>1 DEF Open
<1> QED
  BY <1>2, <1>3

\* A creation has every open question before it.
Ahead(c) ==
  /\ pc[c] = "scan" => Open \subseteq todo[c]
  /\ pc[c] \in WritingPCs /\ call[c].op = "create" /\ work[c].slot[1] = "decision" =>
       Open \subseteq todo[c] \cup {work[c].slot[2]}

LEMMA MoverAhead ==
  ASSUME TypeOK, LockInv, FilesInv, WorkInv, [Next]_vars, ~PowerLoss,
         NEW c \in Callers, Moves(c), Ahead(c)
  PROVE  Ahead(c)'
<1> USE DEF Ahead
<1>1. CASE FileMoves(c)
  <2>1. /\ work' = work /\ call' = call
        /\ \/ pc[c] \in WritingPCs /\ pc'[c] \in WritingPCs \ {"open"}
           \/ pc[c] \in ClaimingPCs /\ pc'[c] \in ClaimingPCs
    BY <1>1, FileMoveAt
  <2>2. todo' = todo
    BY <1>1, FileMoveFrame
  <2>3. Open' \subseteq Open
    <3>1. ASSUME NEW d \in Callers, Makes(d) PROVE FALSE
      BY <2>1, <3>1, Alone DEF Makes, WritingPCs, ClaimingPCs
    <3> QED
      BY <3>1, OpenChange
  <2> QED
    BY <2>1, <2>2, <2>3 DEF WritingPCs, ClaimingPCs
<1>2. CASE StartCreate(c)
  <2>1. pc'[c] = "scan" /\ todo'[c] = {x \in ChallengeIds : dirs[x] # "absent"} /\ store' = store
    BY <1>2 DEF StartCreate, Go, TypeOK
  <2> QED
    BY <2>1 DEF Open, WritingPCs
<1>3. CASE Skips(c)
  <2>1. PICK x \in todo[c] : Decided(x) /\ todo' = [todo EXCEPT ![c] = @ \ {x}]
    BY <1>3 DEF Skips
  <2>2. todo'[c] = todo[c] \ {x} /\ pc[c] = "scan" /\ pc'[c] = "scan" /\ UNCHANGED store
    BY <1>3, <2>1 DEF Skips, TypeOK
  <2>3. Open' = Open /\ x \notin Open
    BY <2>1, <2>2 DEF Open, Decided
  <2> QED
    BY <2>2, <2>3 DEF WritingPCs
<1>4. CASE Expires(c)
  <2>1. PICK x \in ChallengeIds, b \in Records :
          /\ Turned(c, "open", Decision(x), b)
          /\ pc[c] = "scan" /\ todo'[c] = todo[c] \ {x}
          /\ UNCHANGED store
    BY <1>4, ExpiresShape
  <2>2. pc'[c] = "open" /\ work'[c].slot[2] = x
    BY <2>1, SlotFacts DEF Turned
  <2>3. Open' = Open
    BY <2>1 DEF Open, Decided
  <2> QED
    BY <2>1, <2>2, <2>3
<1>5. CASE Makes(c)
  <2>1. PICK x \in ChallengeIds, b \in Records : Turned(c, "open", Challenge(x), b)
    BY <1>5, MakesShape DEF WorkInv
  <2>2. pc'[c] = "open" /\ work'[c].slot[1] = "challenge"
    BY <2>1, SlotFacts DEF Turned
  <2> QED
    BY <2>2
<1>6. CASE Rescans(c)
  <2>1. /\ pc[c] = "written" /\ call[c].op = "create" /\ work[c].slot[1] = "decision"
        /\ pc'[c] = "scan" /\ todo' = todo /\ UNCHANGED store
    BY <1>6 DEF Rescans, Go, TypeOK
  <2>2. work[c].slot \in Slots /\ files[work[c].slot].there
    BY <2>1, WroteShape DEF Durable, Whole
  <2>3. Decided(work[c].slot[2])
    BY <2>1, <2>2, SlotOfKind DEF Decided
  <2>4. Open' = Open /\ work[c].slot[2] \notin Open
    BY <2>1, <2>3 DEF Open, Decided
  <2> QED
    BY <2>1, <2>4 DEF WritingPCs
<1>7. CASE Rules(c) \/ Begins(c) \/ Claims(c) \/ Stamps(c)
  <2>1. call'[c] = call[c] /\ call[c].op # "create" /\ pc'[c] # "scan"
    <3>1. CASE Rules(c)
      BY <3>1, RulesShape DEF Turned
    <3>2. CASE Begins(c)
      BY <3>2, BeginsShape DEF Turned
    <3>3. CASE Claims(c)
      BY <3>3 DEF Claims, Go, TypeOK
    <3>4. CASE Stamps(c)
      BY <3>4, StampsShape DEF Turned
    <3> QED
      BY <1>7, <3>1, <3>2, <3>3, <3>4
  <2> QED
    BY <2>1
<1>8. CASE Ends(c)
  BY <1>8, EndShape, LeaveShape DEF WritingPCs
<1> QED
  BY <1>1, <1>2, <1>3, <1>4, <1>5, <1>6, <1>7, <1>8 DEF Moves, Turns

\* Whoever does not move sees no new question.
LEMMA OtherAhead ==
  ASSUME Open' \subseteq Open, NEW c \in Callers, Ahead(c),
         pc'[c] = pc[c], call'[c] = call[c], todo'[c] = todo[c], work'[c] = work[c]
  PROVE  Ahead(c)'
BY DEF Ahead

LEMMA QuestionStep ==
  ASSUME TypeOK, LockInv, FilesInv, WorkInv, QuestionInv, [Next]_vars
  PROVE  QuestionInv'
<1> SUFFICES ASSUME spent'.losses = 0
             PROVE  (\A x, y \in Open' : x = y) /\ \A c \in Callers : Ahead(c)'
  BY DEF QuestionInv, Ahead
<1>1. ~PowerLoss /\ (\A x, y \in Open : x = y) /\ \A c \in Callers : Ahead(c)
  BY BoundsTyped DEF QuestionInv, Ahead
<1>2. \A x, y \in Open' : x = y
  <2>1. CASE Open' \subseteq Open
    BY <1>1, <2>1
  <2>2. CASE \E c \in Callers : Makes(c) /\ todo[c] = {} /\ \E x : Open' \subseteq Open \cup {x}
    <3>1. PICK c \in Callers : Makes(c) /\ todo[c] = {} /\ \E x : Open' \subseteq Open \cup {x}
      BY <2>2
    <3>2. PICK x : Open' \subseteq Open \cup {x}
      BY <3>1
    <3>3. Open = {}
      BY <1>1, <3>1 DEF Makes, Ahead
    <3> QED
      BY <3>2, <3>3
  <2> QED
    BY <1>1, <2>1, <2>2, OpenChange
<1>3. CASE UNCHANGED vars \/ Tick \/ SetBack
  <2>1. UNCHANGED <<store, pc, call, todo, work>>
    BY <1>3 DEF vars, Tick, SetBack
  <2>2. Open' \subseteq Open
    BY <2>1 DEF Open, Decided
  <2> QED
    BY <1>1, <1>2, <2>1, <2>2, OtherAhead
<1>4. ASSUME NEW c \in Callers, Begin(c) \/ Acquire(c) PROVE \A d \in Callers : Ahead(d)'
  <2>1. /\ UNCHANGED <<store, todo, work>> /\ pc'[c] \in {"lock", "begin"}
        /\ \A d \in Callers : d # c => pc'[d] = pc[d] /\ call'[d] = call[d]
    <3>1. CASE Begin(c)
      <4>1. pc' = [pc EXCEPT ![c] = "lock"] /\ call' = [call EXCEPT ![c] = call'[c]]
            /\ UNCHANGED <<store, todo, work>>
        BY <3>1, BeginShape
      <4>2. DOMAIN pc = Callers /\ DOMAIN call = Callers
        BY DEF TypeOK
      <4> QED
        BY ONLY <1>4, <4>1, <4>2
    <3>2. CASE Acquire(c)
      BY <3>2 DEF Acquire, Go, TypeOK
    <3> QED
      BY <1>4, <3>1, <3>2
  <2>2. Open' \subseteq Open
    BY <2>1 DEF Open, Decided
  <2>3. Ahead(c)'
    BY <2>1 DEF Ahead, WritingPCs
  <2>4. \A d \in Callers : d # c => Ahead(d)'
    BY <1>1, <2>1, <2>2, OtherAhead
  <2> QED
    BY <2>3, <2>4
<1>5. ASSUME NEW c \in Callers, Moves(c) PROVE \A d \in Callers : Ahead(d)'
  <2>1. Ahead(c)'
    BY <1>1, <1>5, MoverAhead
  <2>2. ASSUME NEW d \in Callers, d # c PROVE Ahead(d)'
    <3>1. /\ pc'[d] = pc[d] /\ call'[d] = call[d] /\ todo'[d] = todo[d] /\ work'[d] = work[d]
      BY <1>5, <2>2, MoveFrame
    <3>2. CASE pc[d] \in {"idle", "lock"}
      BY <3>1, <3>2 DEF Ahead, WritingPCs
    <3>3. CASE pc[d] \notin {"idle", "lock"}
      <4>1. pc[c] = "lock"
        BY <1>5, <2>2, <3>3, Alone, MoveFrame
      <4>2. Ends(c)
        BY <1>5, <4>1, FileMoveFrame, TurnFrame DEF Moves, ClaimingPCs, WritingPCs
      <4>3. Open' \subseteq Open
        BY <4>2, EndShape DEF Open, Decided
      <4> QED
        BY <1>1, <3>1, <4>3, OtherAhead
    <3> QED
      BY <3>2, <3>3
  <2> QED
    BY <2>1, <2>2
<1> QED
  BY <1>1, <1>2, <1>3, <1>4, <1>5, NextCases

-----------------------------------------------------------------------------

(* The theorems. *)

LEMMA InitInv ==
  ASSUME Init
  PROVE  StoreInv
<1>1. TypeOK
  <2>1. /\ dirs \in [ChallengeIds \cup ApprovalIds -> {"absent", "made", "linked"}]
        /\ drawn = {} /\ lock = {} /\ clock = 0 /\ asked = {} /\ told = {} /\ uses = <<>>
        /\ now \in [Callers -> Nat] /\ todo \in [Callers -> SUBSET ChallengeIds]
    BY DEF Init
  <2>2. files \in [Slots -> [there : BOOLEAN, good : BOOLEAN, synced : BOOLEAN,
                             linked : BOOLEAN, says : SUBSET Records]]
    BY EmptyFiles DEF Init
  <2>3. pc \in [Callers -> PCs] /\ call \in [Callers -> AllCalls]
    BY DEF Init, PCs, AllCalls
  <2>4. work \in [Callers -> [slot : Slots \cup {<<>>}, says : SUBSET Records]]
    BY DEF Init, NoWork
  <2>5. spent \in [calls : Nat, setbacks : Nat, losses : Nat] /\ scene \in Scenarios
    BY DEF Init
  <2> QED
    BY <2>1, <2>2, <2>3, <2>4, <2>5 DEF TypeOK
<1>2. /\ \A c \in Callers : pc[c] = "idle" /\ call[c] = NoCall
      /\ \A i \in ChallengeIds \cup ApprovalIds : dirs[i] = "absent"
      /\ \A s \in Slots : files[s] = NoFile
      /\ DOMAIN uses = {} /\ told = {}
  BY DEF Init
<1>3. LockInv /\ AskedInv
  BY <1>2 DEF LockInv, AskedInv, NoCall
<1>4. FilesInv
  BY <1>2, EmptyFiles DEF FilesInv
<1>5. WorkInv
  BY <1>2 DEF WorkInv, ClaimingPCs, WritingPCs
<1>6. DecisionFirst /\ ToldIsDurable /\ UsesInv /\ OneUse /\ UseIsAuthorised
  BY <1>2 DEF DecisionFirst, ToldIsDurable, UsesInv, OneUse, UseIsAuthorised
<1>7. QuestionInv
  BY <1>2 DEF QuestionInv, Open, WritingPCs
<1> QED
  BY <1>1, <1>3, <1>4, <1>5, <1>6, <1>7 DEF StoreInv

LEMMA NextInv ==
  ASSUME StoreInv, [Next]_vars
  PROVE  StoreInv'
<1>1. /\ TypeOK /\ LockInv /\ AskedInv /\ FilesInv /\ WorkInv /\ DecisionFirst
      /\ ToldIsDurable /\ UsesInv /\ OneUse /\ UseIsAuthorised /\ QuestionInv
  BY DEF StoreInv
<1>2. TypeOK' /\ LockInv' /\ AskedInv' /\ FilesInv'
  BY <1>1, TypeStep, LockStep, AskedStep, FilesStep
<1>3. WorkInv' /\ DecisionFirst'
  BY <1>1, <1>2, WorkStep, DecisionStep
<1>4. ToldIsDurable' /\ UsesInv' /\ OneUse' /\ UseIsAuthorised' /\ QuestionInv'
  BY <1>1, ToldStep, UsesStep, OneUseStep, AuthorisedStep, QuestionStep
<1> QED
  BY <1>2, <1>3, <1>4 DEF StoreInv

\* A challenge is written under the lock, in a directory that was new.
LEMMA ChallengeFirstStep ==
  ASSUME TypeOK, LockInv, FilesInv, WorkInv, ChallengeFirst, [Next]_vars
  PROVE  ChallengeFirst'
<1> SUFFICES ASSUME NEW c \in Callers, NEW x \in ChallengeIds,
                    pc'[c] \in WritingPCs, work'[c].slot = Challenge(x)
             PROVE  ~Decided(x)'
  BY DEF ChallengeFirst, WritingPCs
<1>1. /\ Challenge(x) \in Slots /\ Decision(x) \in Slots /\ Challenge(x) # Decision(x)
      /\ Decision(x)[2] = x
  BY SlotFacts DEF Challenge, Decision
<1>2. ASSUME pc'[c] = pc[c], work'[c] = work[c], files' = files PROVE ~Decided(x)'
  BY <1>2 DEF ChallengeFirst, Decided
<1>3. CASE UNCHANGED vars \/ Tick \/ SetBack
  BY <1>2, <1>3 DEF vars, Tick, SetBack
<1>4. CASE PowerLoss
  BY <1>4 DEF PowerLoss, WritingPCs
<1>5. ASSUME NEW d \in Callers, Begin(d) PROVE ~Decided(x)'
  <2>1. c # d
    BY <1>5, BeginShape DEF WritingPCs
  <2>2. files' = files /\ work' = work /\ pc' = [pc EXCEPT ![d] = "lock"]
    BY <1>5, BeginShape
  <2> QED BY <1>2, <2>1, <2>2 DEF TypeOK
<1>6. ASSUME NEW d \in Callers, Acquire(d) PROVE ~Decided(x)'
  <2>1. c # d
    BY <1>6 DEF Acquire, Go, WritingPCs, TypeOK
  <2> QED BY <1>2, <1>6, <2>1 DEF Acquire, Go, TypeOK
<1>7. ASSUME NEW d \in Callers, Ends(d) PROVE ~Decided(x)'
  <2>1. c # d
    BY <1>7, EndShape, LeaveShape DEF WritingPCs
  <2> QED BY <1>2, <1>7, <2>1, EndShape, LeaveShape
<1>8. ASSUME NEW d \in Callers, c # d, FileMoves(d) \/ Turns(d) PROVE ~Decided(x)'
  <2>1. pc[d] \notin {"idle", "lock"} /\ pc'[c] = pc[c]
    BY <1>8, FileMoveFrame, TurnFrame DEF WritingPCs, ClaimingPCs
  <2>2. pc[c] \in {"idle", "lock"}
    BY <1>8, <2>1, Alone
  <2> QED BY <2>1, <2>2 DEF WritingPCs
<1>9. CASE FileMoves(c)
  <2>1. work' = work /\ pc[c] \in WritingPCs \cup ClaimingPCs
    BY <1>9, FileMoveFrame
  <2>2. pc[c] \in WritingPCs
    <3>1. pc[c] \in ClaimingPCs => work[c].slot = Terminal(call[c].approval)
      BY DEF WorkInv, ClaimAt
    <3> QED BY <2>1, <3>1, SlotFacts DEF Challenge, Terminal
  <2>3. ~files[Decision(x)].there
    BY <2>1, <2>2 DEF ChallengeFirst, Decided
  <2>4. \A t \in Slots : t # Challenge(x) => files'[t].there = files[t].there
    <3>1. CASE OpenFile(c) \/ WriteFile(c) \/ SyncFile(c) \/ SyncClaim(c)
      BY <2>1, <3>1, FileStepShape DEF OpenFile, WriteFile, SyncFile, SyncClaim
    <3>2. CASE SyncDirectory(c) \/ SyncClaimDirectory(c)
      <4>1. \A t \in Slots :
              files'[t] = [files[t] EXCEPT !.linked = TRUE] \/ files'[t] = files[t]
        BY <3>2, LinkFilesShape DEF SyncDirectory, SyncClaimDirectory
      <4>2. \A t \in Slots :
              files[t] \in [there : BOOLEAN, good : BOOLEAN, synced : BOOLEAN,
                            linked : BOOLEAN, says : SUBSET Records]
        BY FileTyped
      <4>3. \A t \in Slots : [files[t] EXCEPT !.linked = TRUE].there = files[t].there
        BY <4>2
      <4> QED BY <4>1, <4>3
    <3>3. CASE SyncParent(c)
      BY <3>3 DEF SyncParent
    <3> QED BY <1>9, <3>1, <3>2, <3>3 DEF FileMoves
  <2> QED BY <1>1, <2>3, <2>4 DEF Decided
<1>10. CASE Turns(c)
  <2>1. CASE StartCreate(c) \/ Rescans(c) \/ Skips(c)
    BY <2>1 DEF StartCreate, Rescans, Skips, Go, TypeOK, WritingPCs
  <2>2. ASSUME NEW s, work'[c].slot = s, s[1] # "challenge" PROVE FALSE
    BY <2>2, SlotFacts
  <2>8. CASE Expires(c)
    <3>1. PICK y \in ChallengeIds, b \in Records : Turned(c, "open", Decision(y), b)
      BY <2>8, ExpiresShape
    <3>2. work'[c].slot = Decision(y)
      BY <3>1 DEF Turned
    <3> QED BY <2>2, <3>2, SlotFacts
  <2>3. CASE Makes(c)
    <3>1. pc[c] = "scan" => call[c].op = "create"
      BY DEF WorkInv
    <3>2. PICK y \in ChallengeIds :
            y \notin drawn /\ work'[c].slot = Challenge(y) /\ files' = files
      <4>1. PICK y \in ChallengeIds, b \in Records :
              y \notin drawn /\ Turned(c, "open", Challenge(y), b) /\ files' = files
        BY <2>3, <3>1, MakesShape
      <4> QED BY <4>1 DEF Turned
    <3>3. y = x
      BY <3>2 DEF Challenge
    <3>4. dirs[x] = "absent"
      BY <3>2, <3>3 DEF FilesInv
    <3> QED BY <1>1, <3>2, <3>4 DEF FilesInv, Decided
  <2>4. CASE Rules(c)
    <3>1. PICK y \in ChallengeIds, b \in Records : Turned(c, "open", Decision(y), b)
      BY <2>4, RulesShape
    <3>2. work'[c].slot = Decision(y)
      BY <3>1 DEF Turned
    <3> QED BY <2>2, <3>2, SlotFacts
  <2>5. CASE Begins(c)
    <3>1. PICK a \in ApprovalIds, b \in Records : Turned(c, "open", Approval(a), b)
      BY <2>5, BeginsShape
    <3>2. work'[c].slot = Approval(a)
      BY <3>1 DEF Turned
    <3> QED BY <2>2, <3>2, SlotFacts
  <2>6. CASE Claims(c)
    <3>1. PICK a \in ApprovalIds : work'[c] = [slot |-> Terminal(a), says |-> {}]
      BY <2>6, ClaimsShape
    <3>2. work'[c].slot = Terminal(a)
      BY <3>1
    <3> QED BY <2>2, <3>2, SlotFacts
  <2>7. CASE Stamps(c)
    <3>1. PICK b \in Records :
            /\ work[c].slot = Terminal(call[c].approval)
            /\ Turned(c, "write", work[c].slot, b)
      BY <2>7, StampsShape
    <3>2. work'[c].slot = Terminal(call[c].approval)
      BY <3>1 DEF Turned
    <3> QED BY <2>2, <3>2, SlotFacts
  <2> QED BY <1>10, <2>1, <2>8, <2>3, <2>4, <2>5, <2>6, <2>7 DEF Turns
<1> QED
  BY <1>3, <1>4, <1>5, <1>6, <1>7, <1>8, <1>9, <1>10, NextCases DEF Moves

\* One decision of a human lets one run go ahead, within the lifetime of the
\* approval, whoever asks, how often and whatever dies in between, power losses
\* and clocks set back included; no approval exists before its decision is
\* durable.
THEOREM ApprovalAlwaysSound == Spec => []ApprovalIsSound
<1>1. Init => ApprovalIsSound
  <2>1. Init => ChallengeFirst
    BY DEF Init, ChallengeFirst, WritingPCs
  <2> QED BY <2>1, InitInv DEF ApprovalIsSound
<1>2. ApprovalIsSound /\ [Next]_vars => ApprovalIsSound'
  BY NextInv, ChallengeFirstStep DEF ApprovalIsSound, StoreInv
<1> QED
  BY <1>1, <1>2, PTL DEF Spec

\* What decide or consume has returned rests on durable files for good.
THEOREM AnswersAreDurable == Spec => []ToldIsDurable
<1>1. ApprovalIsSound => ToldIsDurable
  BY DEF ApprovalIsSound, StoreInv
<1> QED
  BY <1>1, ApprovalAlwaysSound, PTL

\* create never puts a second question to a human, as long as power holds.
THEOREM NeverTwoQuestions == Spec => []OneQuestion
<1>1. ApprovalIsSound => OneQuestion
  <2> SUFFICES ASSUME ApprovalIsSound, spent.losses = 0
               PROVE  Cardinality(Open) <= 1
    BY DEF OneQuestion
  <2>1. \A x, y \in Open : x = y
    BY DEF ApprovalIsSound, StoreInv, QuestionInv
  <2>2. CASE Open = {}
    BY <2>2, FS_EmptySet
  <2>3. CASE Open # {}
    <3>1. PICK x \in Open : TRUE
      BY <2>3
    <3>2. Open = {x}
      BY <2>1
    <3> QED
      BY <3>2, FS_Singleton
  <2> QED
    BY <2>2, <2>3
<1> QED
  BY <1>1, ApprovalAlwaysSound, PTL
-----------------------------------------------------------------------------

(* The promise to the preparer.  A challenge is written before it is decided, *)
(* so that an approval goes on offer when its own record is written and at no *)
(* other moment.                                                              *)

\* A file becomes readable under the hand of the caller that holds the lock.
LEMMA NewlyGood ==
  ASSUME TypeOK, FilesInv, WorkInv, [Next]_vars, ~PowerLoss, NEW s \in Slots,
         ~files[s].good, files'[s].good
  PROVE  \E c \in Callers : pc[c] = "write" /\ work[c].slot = s
<1>1. ~Created(s)
  BY EmptyFiles DEF Created
<1>2. ~Flagged(s)
  BY FileTyped, FlagsSet DEF Flagged
<1> QED
  BY <1>1, <1>2, FileChange DEF Written

LEMMA OneNewlyGood ==
  ASSUME TypeOK, LockInv, FilesInv, WorkInv, [Next]_vars, ~PowerLoss,
         NEW s \in Slots, ~files[s].good, files'[s].good,
         NEW t \in Slots, ~files[t].good, files'[t].good
  PROVE  s = t
<1>1. PICK c \in Callers : pc[c] = "write" /\ work[c].slot = s
  BY NewlyGood
<1>2. PICK d \in Callers : pc[d] = "write" /\ work[d].slot = t
  BY NewlyGood
<1>3. c = d
  BY <1>1, <1>2, Alone
<1> QED
  BY <1>1, <1>2, <1>3

\* What is on offer stays so until it is claimed.
LEMMA OfferStays ==
  ASSUME StoreInv, [Next]_vars, ~PowerLoss, NEW a \in ApprovalIds, Consumable(a),
         ~files'[Terminal(a)].there
  PROVE  Consumable(a)'
<1>1. TypeOK /\ FilesInv /\ WorkInv
  BY DEF StoreInv
<1>2. /\ Approval(a) \in Slots /\ Terminal(a) \in Slots /\ Approval(a)[2] = a
      /\ \A x \in ChallengeIds : /\ Challenge(x) \in Slots /\ Decision(x) \in Slots
                                 /\ Challenge(x)[2] = x /\ Decision(x)[2] = x
  BY SlotFacts
<1>3. files[Approval(a)].there /\ files[Approval(a)].good
  BY DEF Consumable, ApprovalLoads, Whole
<1>4. \A s \in Slots : files[s].there => files'[s].there
  BY <1>1, GoodStays
<1>5. \A s \in Slots : files[s].good => files'[s].good /\ Says(s)' = Says(s)
  BY <1>1, GoodStays
<1>6. FilesInv'
  BY <1>1, NextInv DEF StoreInv
<1>7. \A s \in Slots : files[s].there => dirs'[s[2]] # "absent"
  BY <1>4, <1>6 DEF FilesInv
<1>8. ApprovalLoads(a)'
  BY <1>2, <1>3, <1>4, <1>5, <1>7 DEF ApprovalLoads, Whole
<1>9. PICK x \in Says(Approval(a)).link :
        /\ ChallengeLoads(x) /\ Decided(x)
        /\ Says(Challenge(x)).proposal = Says(Approval(a)).proposal
        /\ Says(Decision(x)).word = "approved" /\ Says(Decision(x)).link = {a}
  BY DEF Consumable, ChainHolds
<1>10. x \in ChallengeIds
  <2>1. Fits(Approval(a), Says(Approval(a))) /\ Approval(a)[1] = "approval"
    BY <1>1, <1>2, <1>3, Readable, SlotFacts
  <2>2. PICK y \in ChallengeIds : Says(Approval(a)).link = {y}
    BY <2>1 DEF Fits, Grants
  <2> QED BY <1>9, <2>2
<1>11. /\ files[Challenge(x)].there /\ files[Challenge(x)].good
       /\ files[Decision(x)].there /\ files[Decision(x)].good
       /\ Says(Decision(x)).proposal = Says(Challenge(x)).proposal
  BY <1>9 DEF ChallengeLoads, Decided, Whole
<1>12. /\ ChallengeLoads(x)' /\ Decided(x)'
  BY <1>2, <1>4, <1>5, <1>7, <1>10, <1>11 DEF ChallengeLoads, Decided, Whole
<1>13. ChainHolds(a)'
  BY <1>2, <1>3, <1>5, <1>9, <1>10, <1>11, <1>12 DEF ChainHolds
<1> QED
  BY <1>8, <1>13 DEF Consumable

\* An approval goes on offer when its own record is written.
LEMMA OfferAppears ==
  ASSUME StoreInv, ChallengeFirst, [Next]_vars, ~PowerLoss, NEW a \in ApprovalIds,
         Consumable(a)', ~Consumable(a)
  PROVE  ~files[Approval(a)].good /\ files'[Approval(a)].good
<1>1. TypeOK /\ FilesInv /\ WorkInv
  BY DEF StoreInv
<1>2. /\ Approval(a) \in Slots /\ Terminal(a) \in Slots /\ Approval(a)[2] = a
      /\ \A x \in ChallengeIds : /\ Challenge(x) \in Slots /\ Decision(x) \in Slots
                                 /\ Challenge(x)[2] = x /\ Decision(x)[2] = x
  BY SlotFacts
<1>3. files'[Approval(a)].good
  BY DEF Consumable, ApprovalLoads, Whole
<1> SUFFICES ASSUME files[Approval(a)].good PROVE Consumable(a)
  BY <1>3
<1>4. \A s \in Slots : files[s].there => files'[s].there
  BY <1>1, GoodStays
<1>5. \A s \in Slots : files[s].good => files'[s].good /\ Says(s)' = Says(s)
  BY <1>1, GoodStays
<1>6. \A s \in Slots : files[s].good => files[s].there /\ dirs[s[2]] # "absent"
  BY <1>1, Readable DEF FilesInv
<1>7. ~files[Terminal(a)].there
  BY <1>2, <1>4 DEF Consumable
<1>8. ApprovalLoads(a)
  BY <1>2, <1>6, <1>7 DEF ApprovalLoads, Whole
<1>9. PICK x \in ChallengeIds : Says(Approval(a)).link = {x} /\ Approves(x, a)
  <2>1. Fits(Approval(a), Says(Approval(a))) /\ Approval(a)[1] = "approval"
        /\ Approval(a)[2] = a
    BY <1>1, <1>2, Readable, SlotFacts
  <2> QED BY <2>1 DEF Fits, Grants
<1>10. /\ ChallengeLoads(x)'
       /\ Says(Challenge(x))'.proposal = Says(Approval(a))'.proposal
  <2>1. PICK y \in Says(Approval(a))'.link :
          ChallengeLoads(y)' /\ Says(Challenge(y))'.proposal = Says(Approval(a))'.proposal
    BY DEF Consumable, ChainHolds
  <2>2. y = x
    BY <1>2, <1>5, <1>9, <2>1
  <2> QED BY <2>1, <2>2
<1>11. /\ files[Decision(x)].there /\ files[Decision(x)].good
       /\ Says(Decision(x)).word = "approved" /\ Says(Decision(x)).link = {a}
  BY <1>9 DEF Approves, Durable, Whole
<1>12. files[Challenge(x)].good
  <2> SUFFICES ASSUME ~files[Challenge(x)].good PROVE FALSE
    OBVIOUS
  <2>1. files'[Challenge(x)].good
    BY <1>10 DEF ChallengeLoads, Whole
  <2>2. PICK c \in Callers : pc[c] = "write" /\ work[c].slot = Challenge(x)
    BY <1>1, <1>2, <2>1, NewlyGood
  <2> QED BY <1>11, <2>2 DEF ChallengeFirst, WritingPCs, Decided
<1>13. Says(Challenge(x))' = Says(Challenge(x)) /\ Says(Decision(x))' = Says(Decision(x))
       /\ Says(Approval(a))' = Says(Approval(a))
  BY <1>2, <1>5, <1>11, <1>12
<1>14. Says(Decision(x)).proposal = Says(Challenge(x)).proposal
  BY <1>2, <1>4, <1>10, <1>11, <1>13 DEF ChallengeLoads, Decided
<1>15. ChallengeLoads(x) /\ Decided(x)
  BY <1>2, <1>6, <1>11, <1>12, <1>14 DEF ChallengeLoads, Decided, Whole
<1>16. ChainHolds(a)
  BY <1>9, <1>10, <1>11, <1>13, <1>15 DEF ChainHolds
<1> QED
  BY <1>7, <1>8, <1>16 DEF Consumable

\* Whoever is at the terminal file of an approval has claimed it, alone.
LEMMA ClaimantFacts ==
  ASSUME StoreInv, NEW a \in ApprovalIds, NEW c \in Claimants(a)
  PROVE  /\ c \in Callers /\ lock = {c} /\ Claimants(a) = {c}
         /\ call[c].op = "consume" /\ call[c].approval = a /\ call[c].run \in Runs
         /\ UsersOf(a) = {} /\ files[Terminal(a)].there
         /\ Phase(a) = <<"claimed", {call[c].run}>>
<1>1. TypeOK /\ LockInv /\ WorkInv
  BY DEF StoreInv
<1>2. \A d \in Claimants(a) :
        d \in Callers /\ pc[d] \in ClaimPCs /\ work[d].slot = Terminal(a) /\ lock = {d}
  BY <1>1 DEF Claimants, ClaimPCs, LockInv
<1>3. Claimants(a) = {c}
  BY <1>2
<1>4. WriteAt(c)
  BY <1>1, <1>2 DEF WorkInv, ClaimPCs, WritingPCs, ClaimingPCs
<1>5. files[Terminal(a)].there
  BY <1>2, <1>4 DEF WriteAt, ClaimPCs
<1>6. call[c].op = "consume"
  <2>1. CASE pc[c] \in ClaimingPCs
    BY <1>1, <1>2, <2>1 DEF WorkInv
  <2>2. CASE pc[c] \in WritingPCs
    <3>1. PICK b \in work[c].says : WritesFor(c, b)
      BY <1>4, <2>2 DEF WriteAt
    <3>2. Terminal(a)[1] = "terminal"
      BY SlotFacts
    <3>3. \A x \in ChallengeIds : Terminal(a) # Challenge(x) /\ Terminal(a) # Decision(x)
      BY DEF Terminal, Challenge, Decision
    <3>4. \A e \in ApprovalIds : Terminal(a) # Approval(e)
      BY DEF Terminal, Approval
    <3>5. call[c].op \in {"none", "create", "decide", "consume"}
          /\ (call[c].op = "decide" => call[c].challenge \in ChallengeIds)
      BY <1>1, <1>2, CallTyped
    <3>6. CASE call[c].op = "create"
      BY <1>2, <3>1, <3>3, <3>6 DEF WritesFor
    <3>7. CASE call[c].op = "decide"
      BY <1>2, <3>1, <3>3, <3>4, <3>5, <3>7 DEF WritesFor
    <3>8. CASE call[c].op = "none"
      BY <3>1, <3>8 DEF WritesFor
    <3> QED BY <3>5, <3>6, <3>7, <3>8
  <2> QED BY <1>2, <2>1, <2>2 DEF ClaimPCs, WritingPCs, ClaimingPCs
<1>7. ClaimAt(c)
  BY <1>1, <1>2, <1>6 DEF WorkInv, ClaimPCs, WritingPCs, ClaimingPCs
<1>8. call[c].approval = a
  BY <1>2, <1>7 DEF ClaimAt, Terminal
<1>9. UsersOf(a) = {}
  BY <1>7, <1>8 DEF ClaimAt, UsersOf
<1>10. {call[d].run : d \in Claimants(a)} = {call[c].run}
  BY <1>3
<1>11. call[c].run \in Runs
  BY <1>1, <1>2, <1>6, CallTyped
<1>12. Phase(a) = <<"claimed", {call[c].run}>>
  BY <1>3, <1>9, <1>10 DEF Phase
<1> QED
  BY <1>2, <1>3, <1>5, <1>6, <1>8, <1>9, <1>11, <1>12

LEMMA PhaseFacts ==
  ASSUME NEW a \in ApprovalIds, UsersOf(a) = {}, Claimants(a) = {}
  PROVE  /\ files[Terminal(a)].there => Phase(a) = <<"burnt", {}>>
         /\ ~files[Terminal(a)].there /\ Consumable(a) => Phase(a) = <<"offered", {}>>
         /\ ~files[Terminal(a)].there /\ ~Consumable(a) => Phase(a) = <<"withheld", {}>>
BY DEF Phase

\* A used approval names its one user.
LEMMA UsedFacts ==
  ASSUME StoreInv, NEW i \in DOMAIN uses
  PROVE  /\ uses[i].approval \in ApprovalIds /\ uses[i].run \in Runs
         /\ Phase(uses[i].approval) = <<"used", {uses[i].run}>>
         /\ files[Terminal(uses[i].approval)].there
<1>1. TypeOK /\ OneUse /\ ToldIsDurable
  BY DEF StoreInv
<1>2. uses[i].approval \in ApprovalIds /\ uses[i].run \in Runs
  BY <1>1, UsedTyped DEF UseType
<1>3. {j \in DOMAIN uses : uses[j].approval = uses[i].approval} = {i}
  BY <1>1 DEF OneUse
<1>4. UsersOf(uses[i].approval) = {uses[i].run}
  BY <1>3 DEF UsersOf
<1>5. files[Terminal(uses[i].approval)].there
  BY <1>1 DEF ToldIsDurable, Durable, Whole
<1> QED
  BY <1>2, <1>4, <1>5 DEF Phase

\* A step that neither uses nor claims nor gives up an approval.
Calmly(a) ==
  /\ UsersOf(a)' = UsersOf(a) /\ Claimants(a)' = Claimants(a)
  /\ \A c \in Claimants(a) : call'[c] = call[c]
  /\ files'[Terminal(a)].there = files[Terminal(a)].there

LEMMA CalmPhase ==
  ASSUME StoreInv, ChallengeFirst, [Next]_vars, ~PowerLoss, NEW a \in ApprovalIds, Calmly(a)
  PROVE  \/ Phase(a)' = Phase(a)
         \/ /\ Phase(a) = <<"withheld", {}>> /\ Phase(a)' = <<"offered", {}>>
            /\ ~files[Approval(a)].good /\ files'[Approval(a)].good
<1>1. UsersOf(a)' = UsersOf(a) /\ Claimants(a)' = Claimants(a)
  BY DEF Calmly
<1>2. files'[Terminal(a)].there = files[Terminal(a)].there
  BY DEF Calmly
<1>3. {call'[c].run : c \in Claimants(a)'} = {call[c].run : c \in Claimants(a)}
  BY <1>1 DEF Calmly
<1>4. CASE UsersOf(a) # {} \/ Claimants(a) # {} \/ files[Terminal(a)].there
  BY <1>1, <1>2, <1>3, <1>4 DEF Phase
<1>5. CASE UsersOf(a) = {} /\ Claimants(a) = {} /\ ~files[Terminal(a)].there
  <2>1. Consumable(a) => Consumable(a)'
    BY <1>2, <1>5, OfferStays
  <2>2. CASE Consumable(a) \/ ~Consumable(a)'
    BY <1>1, <1>2, <1>5, <2>1, <2>2 DEF Phase
  <2>3. CASE ~Consumable(a) /\ Consumable(a)'
    <3>1. ~files[Approval(a)].good /\ files'[Approval(a)].good
      BY <2>3, OfferAppears
    <3>2. Phase(a) = <<"withheld", {}>>
      BY <1>5, <2>3 DEF Phase
    <3>3. Phase(a)' = <<"offered", {}>>
      BY <1>1, <1>2, <1>5, <2>3 DEF Phase
    <3> QED BY <3>1, <3>2, <3>3
  <2> QED BY <2>2, <2>3
<1> QED
  BY <1>4, <1>5

\* What becomes of the phases: all stay, or one moves as the promise allows.
OneMoves(a, from, to) ==
  /\ Phase(a) = from /\ Phase(a)' = to
  /\ \A b \in ApprovalIds : b # a => Phase(b)' = Phase(b)

PhasesMove ==
  \/ \A a \in ApprovalIds : Phase(a)' = Phase(a)
  \/ \E a \in ApprovalIds : OneMoves(a, <<"withheld", {}>>, <<"offered", {}>>)
  \/ \E a \in ApprovalIds, r \in Runs :
       \/ OneMoves(a, <<"offered", {}>>, <<"claimed", {r}>>)
       \/ OneMoves(a, <<"claimed", {r}>>, <<"used", {r}>>)
       \/ OneMoves(a, <<"claimed", {r}>>, <<"burnt", {}>>)

LEMMA CalmPhases ==
  ASSUME StoreInv, ChallengeFirst, [Next]_vars, ~PowerLoss,
         \A a \in ApprovalIds : Calmly(a)
  PROVE  PhasesMove
<1>1. \A a \in ApprovalIds :
        \/ Phase(a)' = Phase(a)
        \/ /\ Phase(a) = <<"withheld", {}>> /\ Phase(a)' = <<"offered", {}>>
           /\ ~files[Approval(a)].good /\ files'[Approval(a)].good
  BY CalmPhase
<1>2. CASE \A a \in ApprovalIds : Phase(a)' = Phase(a)
  BY <1>2 DEF PhasesMove
<1>3. CASE \E a \in ApprovalIds : Phase(a)' # Phase(a)
  <2>1. PICK a \in ApprovalIds : Phase(a)' # Phase(a)
    BY <1>3
  <2>2. ASSUME NEW b \in ApprovalIds, Phase(b)' # Phase(b) PROVE b = a
    <3>1. Approval(a) \in Slots /\ Approval(b) \in Slots
      BY SlotFacts
    <3>2. TypeOK /\ LockInv /\ FilesInv /\ WorkInv
      BY DEF StoreInv
    <3>3. Approval(a) = Approval(b)
      BY <1>1, <2>1, <2>2, <3>1, <3>2, OneNewlyGood
    <3> QED BY <3>3 DEF Approval
  <2>3. OneMoves(a, <<"withheld", {}>>, <<"offered", {}>>)
    BY <1>1, <2>1, <2>2 DEF OneMoves
  <2> QED BY <2>3 DEF PhasesMove
<1> QED
  BY <1>2, <1>3

\* A caller that works on another file than the terminal one of a, before and
\* after its step, is none of the claimants of a, and neither is a new one.
LEMMA CalmMove ==
  ASSUME TypeOK, NEW c \in Callers, NEW a \in ApprovalIds,
         uses' = uses \/ UsersOf(a)' = UsersOf(a),
         files'[Terminal(a)].there = files[Terminal(a)].there,
         \A d \in Callers : d # c =>
           pc'[d] = pc[d] /\ work'[d] = work[d] /\ call'[d] = call[d],
         \/ c \notin Claimants(a) /\ ~(pc'[c] \in ClaimPCs /\ work'[c].slot = Terminal(a))
         \/ /\ c \in Claimants(a) /\ pc'[c] \in ClaimPCs /\ work'[c].slot = Terminal(a)
            /\ call'[c] = call[c]
  PROVE  Calmly(a)
<1>1. UsersOf(a)' = UsersOf(a)
  BY DEF UsersOf
<1>2. \A d \in Callers : d # c => (d \in Claimants(a)' <=> d \in Claimants(a))
  BY DEF Claimants
<1>3. c \in Claimants(a)' <=> c \in Claimants(a)
  BY DEF Claimants
<1>4. Claimants(a)' \subseteq Callers /\ Claimants(a) \subseteq Callers
  BY DEF Claimants
<1>5. Claimants(a)' = Claimants(a)
  BY <1>2, <1>3, <1>4
<1>6. \A d \in Claimants(a) : call'[d] = call[d]
  BY <1>4
<1> QED
  BY <1>1, <1>5, <1>6 DEF Calmly

LEMMA OutsideCalm ==
  ASSUME TypeOK, NEW a \in ApprovalIds,
         \/ UNCHANGED vars \/ Tick \/ SetBack
         \/ \E c \in Callers : Begin(c) \/ Acquire(c)
  PROVE  Calmly(a)
<1>1. CASE UNCHANGED vars \/ Tick \/ SetBack
  BY <1>1 DEF vars, Tick, SetBack, Calmly, UsersOf, Claimants
<1>2. ASSUME NEW c \in Callers, Begin(c) PROVE Calmly(a)
  <2>1. /\ pc[c] = "idle" /\ pc'[c] = "lock" /\ files' = files /\ work' = work /\ uses' = uses
        /\ pc' = [pc EXCEPT ![c] = "lock"] /\ call' = [call EXCEPT ![c] = call'[c]]
    BY <1>2, BeginShape
  <2>2. \A d \in Callers : d # c => pc'[d] = pc[d] /\ call'[d] = call[d]
    BY <2>1 DEF TypeOK
  <2> QED BY <2>1, <2>2, CalmMove DEF Claimants, ClaimPCs
<1>3. ASSUME NEW c \in Callers, Acquire(c) PROVE Calmly(a)
  <2>1. /\ pc[c] = "lock" /\ pc'[c] = "begin" /\ files' = files /\ work' = work /\ uses' = uses
        /\ call' = call /\ \A d \in Callers : d # c => pc'[d] = pc[d]
    BY <1>3 DEF Acquire, Go, TypeOK
  <2> QED BY <2>1, CalmMove DEF Claimants, ClaimPCs
<1> QED
  BY <1>1, <1>2, <1>3

LEMMA FileMoveCalm ==
  ASSUME StoreInv, NEW c \in Callers, FileMoves(c), NEW a \in ApprovalIds
  PROVE  Calmly(a)
<1>1. TypeOK /\ WorkInv
  BY DEF StoreInv
<1>2. /\ UNCHANGED <<drawn, lock, local, clock, history, bounds>>
      /\ \A d \in Callers : d # c => pc'[d] = pc[d]
      /\ pc[c] \in WritingPCs \cup ClaimingPCs
  BY <1>1, FileMoveFrame
<1>3. work[c].slot \in Slots /\ WriteAt(c)
  BY <1>1, <1>2, AtWork
<1>4. Terminal(a) \in Slots
  BY SlotFacts
<1>5. pc[c] = "open" => work[c].slot # Terminal(a)
  <2> SUFFICES ASSUME pc[c] = "open", work[c].slot = Terminal(a) PROVE FALSE
    OBVIOUS
  <2>1. PICK b \in work[c].says : WritesFor(c, b)
    BY <1>3 DEF WriteAt, WritingPCs
  <2>2. \A x \in ChallengeIds : Terminal(a) # Challenge(x) /\ Terminal(a) # Decision(x)
    BY DEF Terminal, Challenge, Decision
  <2>3. \A e \in ApprovalIds : Terminal(a) # Approval(e)
    BY DEF Terminal, Approval
  <2>4. call[c].op \in {"none", "create", "decide", "consume"}
        /\ (call[c].op = "decide" => call[c].challenge \in ChallengeIds)
    BY <1>1, CallTyped
  <2>5. CASE call[c].op = "create"
    BY <2>1, <2>2, <2>5 DEF WritesFor
  <2>6. CASE call[c].op = "decide"
    BY <2>1, <2>2, <2>3, <2>4, <2>6 DEF WritesFor
  <2>7. CASE call[c].op \in {"none", "consume"}
    BY <2>1, <2>7 DEF WritesFor
  <2> QED BY <2>4, <2>5, <2>6, <2>7
<1>6. /\ pc[c] = "open" => pc'[c] = "write"
      /\ pc[c] # "open" => pc[c] \in ClaimPCs /\ pc'[c] \in ClaimPCs
      /\ files'[Terminal(a)].there = files[Terminal(a)].there
  <2>1. CASE OpenFile(c)
    BY <1>1, <1>3, <1>4, <1>5, <2>1, FileStepShape DEF OpenFile
  <2>2. CASE WriteFile(c) \/ SyncFile(c) \/ SyncClaim(c)
    <3>1. /\ pc[c] \in ClaimPCs /\ pc[c] # "open" /\ pc'[c] \in ClaimPCs
          /\ \A t \in Slots : t # work[c].slot => files'[t] = files[t]
      BY <1>1, <2>2, FileStepShape DEF WriteFile, SyncFile, SyncClaim, ClaimPCs
    <3>2. \/ files'[work[c].slot] = [files[work[c].slot] EXCEPT !.synced = TRUE]
          \/ files'[work[c].slot] = [files[work[c].slot] EXCEPT !.good = TRUE, !.synced = FALSE,
                                                                !.says = work[c].says]
      BY <1>1, <1>3, <2>2, FileStepShape DEF WriteFile, SyncFile, SyncClaim
    <3>3. files'[work[c].slot].there = files[work[c].slot].there
      <4> DEFINE f == files[work[c].slot]
      <4>1. f \in [there : BOOLEAN, good : BOOLEAN, synced : BOOLEAN,
                   linked : BOOLEAN, says : SUBSET Records]
        BY <1>1, <1>3, FileTyped
      <4>2. /\ [f EXCEPT !.synced = TRUE].there = f.there
            /\ [f EXCEPT !.good = TRUE, !.synced = FALSE, !.says = work[c].says].there = f.there
        BY <4>1
      <4> QED BY <3>2, <4>2
    <3> QED BY <1>4, <3>1, <3>3
  <2>3. CASE SyncDirectory(c) \/ SyncClaimDirectory(c)
    <3>1. /\ pc[c] \in ClaimPCs /\ pc[c] # "open" /\ pc'[c] \in ClaimPCs
          /\ \A t \in Slots :
               files'[t] = [files[t] EXCEPT !.linked = TRUE] \/ files'[t] = files[t]
      BY <1>1, <2>3, LinkFilesShape DEF SyncDirectory, SyncClaimDirectory, ClaimPCs
    <3>2. files[Terminal(a)] \in [there : BOOLEAN, good : BOOLEAN, synced : BOOLEAN,
                                  linked : BOOLEAN, says : SUBSET Records]
      BY <1>1, <1>4, FileTyped
    <3>3. [files[Terminal(a)] EXCEPT !.linked = TRUE].there = files[Terminal(a)].there
      BY <3>2
    <3> QED BY <1>4, <3>1, <3>3
  <2>4. CASE SyncParent(c)
    BY <1>1, <2>4 DEF SyncParent, Go, TypeOK, ClaimPCs
  <2> QED BY <2>1, <2>2, <2>3, <2>4 DEF FileMoves
<1>7. CASE pc[c] = "open"
  BY <1>1, <1>2, <1>5, <1>6, <1>7, CalmMove DEF Claimants, ClaimPCs
<1>8. CASE pc[c] # "open"
  BY <1>1, <1>2, <1>6, <1>8, CalmMove DEF Claimants
<1> QED
  BY <1>7, <1>8

LEMMA TurnCalm ==
  ASSUME StoreInv, NEW c \in Callers, Turns(c), ~Claims(c), NEW a \in ApprovalIds
  PROVE  Calmly(a)
<1>1. TypeOK /\ FilesInv /\ WorkInv
  BY DEF StoreInv
<1>2. /\ uses' = uses /\ call' = call
      /\ \A d \in Callers : d # c => pc'[d] = pc[d] /\ work'[d] = work[d]
  BY <1>1, TurnFrame
<1>3. ASSUME files' = files, pc[c] \in {"begin", "scan"}, pc'[c] \notin ClaimPCs
      PROVE  Calmly(a)
  BY <1>1, <1>2, <1>3, CalmMove DEF Claimants, ClaimPCs
<1>4. CASE StartCreate(c) \/ Skips(c)
  BY <1>1, <1>3, <1>4 DEF StartCreate, Skips, Go, TypeOK, ClaimPCs
<1>5. CASE Expires(c)
  <2>1. PICK x \in ChallengeIds, b \in Records :
          Turned(c, "open", Decision(x), b) /\ pc[c] = "scan" /\ files' = files
    BY <1>1, <1>5, ExpiresShape
  <2> QED BY <1>3, <2>1 DEF Turned, ClaimPCs
<1>6. CASE Makes(c)
  <2>1. pc[c] = "scan" => call[c].op = "create"
    BY <1>1 DEF WorkInv
  <2>2. PICK x \in ChallengeIds, b \in Records :
          Turned(c, "open", Challenge(x), b) /\ pc[c] = "scan" /\ files' = files
    BY <1>1, <1>6, <2>1, MakesShape
  <2> QED BY <1>3, <2>2 DEF Turned, ClaimPCs
<1>7. CASE Rules(c)
  <2>1. PICK x \in ChallengeIds, b \in Records :
          Turned(c, "open", Decision(x), b) /\ pc[c] = "begin" /\ files' = files
    BY <1>1, <1>7, RulesShape
  <2> QED BY <1>3, <2>1 DEF Turned, ClaimPCs
<1>8. CASE Rescans(c) \/ Begins(c)
  <2>1. call[c].op \in {"create", "decide"} /\ files' = files /\ pc[c] = "written"
    BY <1>8 DEF Rescans, Begins
  <2>2. pc'[c] \notin ClaimPCs
    <3>1. CASE Rescans(c)
      BY <1>1, <3>1 DEF Rescans, Go, TypeOK, ClaimPCs
    <3>2. CASE Begins(c)
      <4>1. PICK e \in ApprovalIds, b \in Records : Turned(c, "open", Approval(e), b)
        BY <1>1, <3>2, BeginsShape
      <4> QED BY <4>1 DEF Turned, ClaimPCs
    <3> QED BY <1>8, <3>1, <3>2
  <2>3. c \notin Claimants(a)
    BY <2>1, ClaimantFacts
  <2> QED BY <1>1, <1>2, <2>1, <2>2, <2>3, CalmMove
<1>9. CASE Stamps(c)
  <2>1. PICK b \in Records :
          pc[c] = "stamp" /\ Turned(c, "write", work[c].slot, b) /\ files' = files
    BY <1>1, <1>9, StampsShape
  <2>2. pc'[c] = "write" /\ work'[c].slot = work[c].slot
    BY <2>1 DEF Turned
  <2> QED BY <1>1, <1>2, <2>1, <2>2, CalmMove DEF Claimants, ClaimPCs
<1> QED
  BY <1>4, <1>5, <1>6, <1>7, <1>8, <1>9 DEF Turns

\* A step that makes no file readable puts nothing on offer.
LEMMA NothingNew ==
  ASSUME StoreInv, ChallengeFirst, [Next]_vars, ~PowerLoss, NEW a \in ApprovalIds, Calmly(a),
         files'[Approval(a)] = files[Approval(a)]
  PROVE  Phase(a)' = Phase(a)
BY CalmPhase

LEMMA ClaimMoves ==
  ASSUME StoreInv, ChallengeFirst, [Next]_vars, ~PowerLoss, NEW c \in Callers, Claims(c)
  PROVE  PhasesMove
<1>1. TypeOK /\ FilesInv /\ WorkInv
  BY DEF StoreInv
<1>2. PICK a \in ApprovalIds :
        /\ a = call[c].approval /\ pc[c] = "begin" /\ call[c].op = "consume"
        /\ Consumable(a) /\ ~files[Terminal(a)].there
        /\ files'[Terminal(a)] = TornFile
        /\ \A s \in Slots : s # Terminal(a) => files'[s] = files[s]
        /\ pc'[c] = "claimSync" /\ work'[c] = [slot |-> Terminal(a), says |-> {}]
        /\ uses' = uses
  BY <1>1, ClaimsShape
<1>3. /\ call' = call
      /\ \A d \in Callers : d # c => pc'[d] = pc[d] /\ work'[d] = work[d]
  BY <1>1, TurnFrame DEF Turns
<1>4. work'[c].slot = Terminal(a)
  BY <1>2
<1>5. \A b \in ApprovalIds : Approval(b) \in Slots /\ Terminal(b) \in Slots
                             /\ Approval(b) # Terminal(a) /\ (Terminal(b) = Terminal(a) => b = a)
  BY SlotFacts DEF Approval, Terminal
<1>6. ASSUME NEW b \in ApprovalIds, b # a PROVE Phase(b)' = Phase(b)
  <2>1. Calmly(b)
    BY <1>1, <1>2, <1>3, <1>4, <1>5, <1>6, CalmMove DEF Claimants, ClaimPCs
  <2> QED BY <1>2, <1>5, <2>1, NothingNew
<1>7. UsersOf(a) = {}
  BY <1>2, UsedFacts DEF UsersOf
<1>8. Claimants(a) = {}
  BY <1>2, ClaimantFacts
<1>9. Phase(a) = <<"offered", {}>>
  BY <1>2, <1>7, <1>8, PhaseFacts
<1>10. Claimants(a)' = {c}
  <2>1. c \in Claimants(a)'
    BY <1>2, <1>4 DEF Claimants, ClaimPCs
  <2>2. \A d \in Callers : d # c => d \notin Claimants(a)'
    BY <1>3, <1>8 DEF Claimants
  <2> QED BY <2>1, <2>2 DEF Claimants
<1>11. {call'[d].run : d \in Claimants(a)'} = {call[c].run}
  BY <1>3, <1>10
<1>12. UsersOf(a)' = {}
  BY <1>2, <1>7 DEF UsersOf
<1>13. Phase(a)' = <<"claimed", {call[c].run}>>
  BY <1>10, <1>11, <1>12 DEF Phase
<1>14. call[c].run \in Runs
  BY <1>1, <1>2, CallTyped
<1> QED
  BY <1>6, <1>9, <1>13, <1>14 DEF OneMoves, PhasesMove

\* A call that ends gives up its claim, unless it reports its use.
LEMMA EndMoves ==
  ASSUME StoreInv, ChallengeFirst, [Next]_vars, ~PowerLoss, NEW c \in Callers, Ends(c)
  PROVE  PhasesMove
<1>1. TypeOK /\ LockInv /\ FilesInv /\ WorkInv
  BY DEF StoreInv
<1>2. /\ files' = files /\ pc'[c] = "idle"
      /\ \A d \in Callers : d # c => pc'[d] = pc[d] /\ work'[d] = work[d] /\ call'[d] = call[d]
  BY <1>1, EndShape, LeaveShape
<1>3. uses' = uses \/ Uses(c)
  BY <1>1, EndShape
<1>4. ASSUME NEW b \in ApprovalIds, c \notin Claimants(b), UsersOf(b)' = UsersOf(b)
      PROVE  Phase(b)' = Phase(b)
  <2>1. Calmly(b)
    BY <1>1, <1>2, <1>4, CalmMove DEF ClaimPCs
  <2> QED BY <1>2, <2>1, NothingNew
<1>5. ASSUME NEW a \in ApprovalIds, c \in Claimants(a) PROVE Claimants(a)' = {}
  <2>1. Claimants(a) = {c}
    BY <1>5, ClaimantFacts
  <2> QED BY <1>2, <2>1 DEF Claimants, ClaimPCs
<1>6. CASE uses' = uses
  <2>1. \A b \in ApprovalIds : UsersOf(b)' = UsersOf(b)
    BY <1>6 DEF UsersOf
  <2>2. CASE \A a \in ApprovalIds : c \notin Claimants(a)
    BY <1>4, <2>1, <2>2 DEF PhasesMove
  <2>3. CASE \E a \in ApprovalIds : c \in Claimants(a)
    <3>1. PICK a \in ApprovalIds : c \in Claimants(a)
      BY <2>3
    <3>2. /\ call[c].approval = a /\ call[c].run \in Runs /\ UsersOf(a) = {}
          /\ files[Terminal(a)].there /\ Phase(a) = <<"claimed", {call[c].run}>>
      BY <3>1, ClaimantFacts
    <3>3. \A b \in ApprovalIds : b # a => c \notin Claimants(b)
      BY <3>2, ClaimantFacts
    <3>4. Phase(a)' = <<"burnt", {}>>
      BY <1>2, <1>5, <2>1, <3>1, <3>2 DEF Phase
    <3> QED BY <1>4, <2>1, <3>2, <3>3, <3>4 DEF OneMoves, PhasesMove
  <2> QED BY <2>2, <2>3
<1>7. CASE Uses(c)
  <2> DEFINE u == [approval |-> call[c].approval, run |-> call[c].run,
                   proposal |-> call[c].proposal, at |-> Wrote(c).from,
                   challenge |-> Says(Approval(call[c].approval)).link]
  <2>1. pc[c] = "written" /\ call[c].op = "consume" /\ uses' = Append(uses, u)
    BY <1>7 DEF Uses
  <2>2. PICK a \in ApprovalIds : a = call[c].approval /\ call[c].run \in Runs
    BY <1>1, <2>1, CallTyped
  <2>3. c \in Claimants(a)
    BY <1>1, <2>1, <2>2 DEF WorkInv, ClaimAt, WritingPCs, Claimants, ClaimPCs
  <2>4. UsersOf(a) = {} /\ Phase(a) = <<"claimed", {call[c].run}>>
    BY <2>2, <2>3, ClaimantFacts
  <2>5. \A b \in ApprovalIds : b # a => c \notin Claimants(b)
    BY <2>2, ClaimantFacts
  <2>6. /\ DOMAIN uses' = DOMAIN uses \cup {Len(uses) + 1} /\ Len(uses) + 1 \notin DOMAIN uses
        /\ \A i \in DOMAIN uses : uses'[i] = uses[i]
        /\ uses'[Len(uses) + 1].approval = a /\ uses'[Len(uses) + 1].run = call[c].run
    <3>1. PICK v \in UseType : uses' = Append(uses, v)
      BY <1>1, <1>7, UsesShape
    <3>2. uses \in Seq(UseType)
      BY <1>1 DEF TypeOK, UseType
    <3>3. /\ DOMAIN uses' = DOMAIN uses \cup {Len(uses) + 1} /\ Len(uses) + 1 \notin DOMAIN uses
          /\ \A i \in DOMAIN uses : uses'[i] = uses[i]
      <4> HIDE DEF u
      <4> QED BY <3>1, <3>2
    <3>4. uses'[Len(uses) + 1] = u
      <4> HIDE DEF u
      <4> QED BY <2>1, <3>2
    <3> QED BY <2>2, <3>3, <3>4
  <2>7. ASSUME NEW b \in ApprovalIds, b # a PROVE UsersOf(b)' = UsersOf(b)
    <3>1. {j \in DOMAIN uses' : uses'[j].approval = b} = {j \in DOMAIN uses : uses[j].approval = b}
      BY <2>6, <2>7
    <3> QED BY <2>6, <3>1 DEF UsersOf
  <2>8. UsersOf(a)' = {call[c].run}
    <3>1. {j \in DOMAIN uses : uses[j].approval = a} = {}
      BY <2>4 DEF UsersOf
    <3>2. {j \in DOMAIN uses' : uses'[j].approval = a} = {Len(uses) + 1}
      BY <2>6, <3>1
    <3>3. {uses'[j].run : j \in {k \in DOMAIN uses' : uses'[k].approval = a}} = {call[c].run}
      BY <2>6, <3>2
    <3> QED BY <3>3 DEF UsersOf
  <2>9. Phase(a)' = <<"used", {call[c].run}>>
    BY <2>8 DEF Phase
  <2> QED BY <1>4, <2>2, <2>4, <2>5, <2>7, <2>9 DEF OneMoves, PhasesMove
<1> QED
  BY <1>3, <1>6, <1>7

LEMMA PhasesStep ==
  ASSUME StoreInv, ChallengeFirst, [Next]_vars, ~PowerLoss
  PROVE  PhasesMove /\ spent'.losses = spent.losses
<1>1. TypeOK
  BY DEF StoreInv
<1>2. CASE UNCHANGED vars \/ Tick \/ SetBack \/ \E c \in Callers : Begin(c) \/ Acquire(c)
  <2>1. PhasesMove
    BY <1>1, <1>2, OutsideCalm, CalmPhases
  <2>2. spent'.losses = spent.losses
    <3>1. CASE UNCHANGED vars \/ Tick \/ \E c \in Callers : Acquire(c)
      BY <3>1 DEF vars, Tick, Acquire
    <3>2. CASE SetBack
      BY <1>1, <3>2 DEF SetBack, Spend, TypeOK
    <3>3. CASE \E c \in Callers : Begin(c)
      BY <1>1, <3>3 DEF Begin, Spend, TypeOK
    <3> QED BY <1>2, <3>1, <3>2, <3>3
  <2> QED BY <2>1, <2>2
<1>3. ASSUME NEW c \in Callers, Moves(c) PROVE PhasesMove /\ spent'.losses = spent.losses
  <2>1. spent' = spent
    BY <1>1, <1>3, MoveFrame
  <2>2. CASE FileMoves(c)
    BY <2>1, <2>2, FileMoveCalm, CalmPhases
  <2>3. CASE Turns(c) /\ ~Claims(c)
    BY <2>1, <2>3, TurnCalm, CalmPhases
  <2>4. CASE Claims(c)
    BY <2>1, <2>4, ClaimMoves
  <2>5. CASE Ends(c)
    BY <2>1, <2>5, EndMoves
  <2> QED BY <1>3, <2>2, <2>3, <2>4, <2>5 DEF Moves
<1> QED
  BY <1>1, <1>2, <1>3, NextCases

LEMMA LossPhases ==
  ASSUME StoreInv, PowerLoss, NEW a \in ApprovalIds
  PROVE  \/ \E r \in Runs : Phase(a) = <<"used", {r}>> /\ Phase(a)' = Phase(a)
         \/ /\ Phase(a)' \in {<<"withheld", {}>>, <<"offered", {}>>, <<"burnt", {}>>}
            /\ \A r \in Runs : Phase(a) # <<"used", {r}>>
<1>1. Claimants(a)' = {} /\ UsersOf(a)' = UsersOf(a)
  <2>1. (\A c \in Callers : pc'[c] = "idle") /\ uses' = uses
    BY DEF PowerLoss
  <2>2. Claimants(a)' = {}
    BY <2>1 DEF Claimants, ClaimPCs
  <2> QED BY <2>1, <2>2 DEF UsersOf
<1>2. CASE UsersOf(a) = {}
  <2>1. Phase(a)' \in {<<"withheld", {}>>, <<"offered", {}>>, <<"burnt", {}>>}
    BY <1>1, <1>2 DEF Phase
  <2>2. \A r \in Runs : Phase(a) # <<"used", {r}>>
    BY <1>2 DEF Phase
  <2> QED BY <2>1, <2>2
<1>3. CASE UsersOf(a) # {}
  <2>1. PICK i \in DOMAIN uses : uses[i].approval = a
    BY <1>3 DEF UsersOf
  <2>2. uses[i].run \in Runs /\ Phase(a) = <<"used", {uses[i].run}>>
    BY <2>1, UsedFacts
  <2>3. Phase(a)' = Phase(a)
    BY <1>1, <1>3 DEF Phase
  <2> QED BY <2>2, <2>3
<1> QED
  BY <1>2, <1>3

-----------------------------------------------------------------------------
LEMMA PromiseInit ==
  ASSUME Init
  PROVE  Promise!OInit
<1>1. StoreInv
  BY InitInv
<1>2. ASSUME NEW a \in ApprovalIds PROVE Phase(a) = <<"withheld", {}>>
  <2>1. uses = <<>> /\ dirs[a] = "absent" /\ \A c \in Callers : pc[c] = "idle"
    BY DEF Init
  <2>2. UsersOf(a) = {} /\ Claimants(a) = {}
    BY <2>1 DEF UsersOf, Claimants, ClaimPCs
  <2>3. ~Consumable(a)
    BY <2>1 DEF Consumable, ApprovalLoads
  <2>4. ~files[Terminal(a)].there
    BY SlotFacts, EmptyFiles DEF Init
  <2> QED BY <2>2, <2>3, <2>4, PhaseFacts
<1>3. spent.losses = 0
  BY DEF Init
<1> QED
  BY <1>2, <1>3 DEF Promise!OInit, Promise!Withheld

LEMMA PromiseStep ==
  ASSUME StoreInv, ChallengeFirst, [Next]_vars
  PROVE  Promise!ONext \/ UNCHANGED Promise!ovars
<1>1. CASE PowerLoss
  <2> DEFINE left == [a \in ApprovalIds |->
                        IF \E r \in Runs : Phase(a) = <<"used", {r}>>
                        THEN <<"withheld", {}>> ELSE Phase(a)']
  <2>1. spent'.losses = spent.losses + 1
    BY <1>1 DEF PowerLoss, Spend, StoreInv, TypeOK
  <2>2. left \in [ApprovalIds -> {<<"withheld", {}>>, <<"offered", {}>>, <<"burnt", {}>>}]
    BY <1>1, LossPhases
  <2>3. \A a \in ApprovalIds :
          Phase(a)' = IF \E r \in Runs : Phase(a) = <<"used", {r}>> THEN Phase(a) ELSE left[a]
    BY <1>1, LossPhases
  <2>4. Promise!Loss
    BY <2>1, <2>2, <2>3 DEF Promise!Loss, Promise!Withheld, Promise!Offered, Promise!Burnt,
                            Promise!Used
  <2> QED BY <2>4 DEF Promise!ONext
<1>2. CASE ~PowerLoss
  <2>1. PhasesMove /\ spent'.losses = spent.losses
    BY <1>2, PhasesStep
  <2>2. ASSUME NEW a \in ApprovalIds, NEW from, NEW to, OneMoves(a, from, to)
        PROVE  Promise!Move(a, from, to)
    BY <2>1, <2>2 DEF OneMoves, Promise!Move
  <2>3. CASE \A a \in ApprovalIds : Phase(a)' = Phase(a)
    BY <2>1, <2>3 DEF Promise!ovars
  <2>4. CASE \E a \in ApprovalIds : OneMoves(a, <<"withheld", {}>>, <<"offered", {}>>)
    BY <2>2, <2>4 DEF Promise!ONext, Promise!Withheld, Promise!Offered
  <2>5. ASSUME NEW a \in ApprovalIds, NEW r \in Runs,
               \/ OneMoves(a, <<"offered", {}>>, <<"claimed", {r}>>)
               \/ OneMoves(a, <<"claimed", {r}>>, <<"used", {r}>>)
               \/ OneMoves(a, <<"claimed", {r}>>, <<"burnt", {}>>)
        PROVE  Promise!ONext
    BY <2>2, <2>5 DEF Promise!ONext, Promise!Offered, Promise!Claimed, Promise!Used, Promise!Burnt
  <2> QED BY <2>1, <2>3, <2>4, <2>5 DEF PhasesMove
<1> QED
  BY <1>1, <1>2

\* Whatever fails or dies, an approval goes from an offer to one claim, and from
\* the claim to one use by the run that claimed it or to nothing: the store,
\* one system call at a time, implements OneUseApproval.
THEOREM StoreImplementsOneUse == Spec => ImplementsOneUse
<1>1. Init => Promise!OInit
  BY PromiseInit
<1>2. ApprovalIsSound /\ [Next]_vars => [Promise!ONext]_(Promise!ovars)
  BY PromiseStep DEF ApprovalIsSound
<1> QED
  BY <1>1, <1>2, ApprovalAlwaysSound, PTL DEF Spec, ImplementsOneUse, Promise!OSpec
=============================================================================
