---------------------------- MODULE ApprovalStore ----------------------------
(***************************************************************************)
(* The durable store of one-use human approvals                            *)
(* (lab_promotion_approval_store.py), one system call per step.            *)
(*                                                                         *)
(* A challenge is a directory with challenge.json and, once decided,       *)
(* decision.json; an approval is a directory with approval.json and, once  *)
(* spent, terminal.json.  Every file is created with O_EXCL and never      *)
(* written again.  create, decide and consume hold one exclusive lock for  *)
(* the whole store.  The clock is the wall clock: create and decide read   *)
(* it before they wait for the lock, consume after its claim.              *)
(***************************************************************************)
EXTENDS Naturals, Sequences, FiniteSets

CONSTANTS
  Callers,              \* the processes that use the store
  ChallengeIds, ApprovalIds,   \* the identifiers that may be drawn
  Proposals, Runs,
  ChallengeLifetime,    \* CHALLENGE_MAX_LIFETIME, in clock units
  ApprovalLifetime,     \* APPROVAL_MAX_LIFETIME, in clock units
  Scenarios             \* the bounds under which a run is looked at

ASSUME IdsAssumption == ChallengeIds \cap ApprovalIds = {}
ASSUME LifetimesAssumption ==
  ChallengeLifetime \in Nat \ {0} /\ ApprovalLifetime \in Nat \ {0}

\* A scenario: the identifiers, proposals and runs that occur, and the bounds on
\* the readings of the clock, the calls, the times the clock is set back, and
\* the power losses.
ASSUME ScenariosAssumption ==
  Scenarios \subseteq [ids : SUBSET (ChallengeIds \cup ApprovalIds),
                       proposals : SUBSET Proposals, runs : SUBSET Runs,
                       clock : Nat, calls : Nat, setbacks : Nat, losses : Nat]

VARIABLES
  dirs,     \* the directory of each challenge and approval
  files,    \* the files in them
  drawn,    \* the random identifiers drawn so far
  lock,     \* who holds the lock, {} or a singleton
  pc,       \* the system call each caller is at
  call,     \* the call each caller is making
  now,      \* the reading of the clock each call works with
  todo,     \* the challenges a creation has still to look at
  work,     \* the file each caller is writing, and its record
  clock,
  asked,    \* history: the approvals humans asked for, and when
  told,     \* history: what decisions returned
  uses,     \* history: the consumptions that returned, in order
  scene,    \* the scenario
  spent     \* how much of each of its bounds is used

store == <<dirs, files, drawn>>
local == <<call, now, todo, work>>
history == <<asked, told, uses>>
bounds == <<scene, spent>>
vars == <<store, lock, pc, local, clock, history, bounds>>

Challenge(x) == <<"challenge", x>>
Decision(x)  == <<"decision", x>>
Approval(a)  == <<"approval", a>>
Terminal(a)  == <<"terminal", a>>

Slots ==
  ({"challenge", "decision"} \X ChallengeIds) \cup ({"approval", "terminal"} \X ApprovalIds)

\* word: what the record says; link: the approval a decision names, the
\* challenge an approval names, the run a consumption names; from, until: its
\* validity.
Record(word, proposal, link, from, until) ==
  [word |-> word, proposal |-> proposal, link |-> link, from |-> from, until |-> until]

ChallengeRecord(proposal, t) == Record("asked", proposal, {}, t, t + ChallengeLifetime)
DecisionRecord(word, proposal, link, t) == Record(word, proposal, link, t, t)
ApprovalRecord(proposal, x, t) == Record("granted", proposal, {x}, t, t + ApprovalLifetime)
TerminalRecord(word, proposal, link, t) == Record(word, proposal, link, t, t)

NoFile   == [there |-> FALSE, good |-> FALSE, synced |-> FALSE, linked |-> FALSE,
             says |-> {}]
TornFile == [NoFile EXCEPT !.there = TRUE]

CreateCall(p) == [op |-> "create", proposal |-> p]
DecideCall(x, p, verdict) ==
  [op |-> "decide", challenge |-> x, proposal |-> p, verdict |-> verdict]
ConsumeCall(a, p, r) == [op |-> "consume", approval |-> a, proposal |-> p, run |-> r]
NoCall == [op |-> "none"]

NoWork == [slot |-> <<>>, says |-> {}]

Init ==
  /\ dirs = [i \in ChallengeIds \cup ApprovalIds |-> "absent"]
  /\ files = [s \in Slots |-> NoFile]
  /\ drawn = {}
  /\ lock = {}
  /\ pc = [c \in Callers |-> "idle"]
  /\ call = [c \in Callers |-> NoCall]
  /\ now = [c \in Callers |-> 0]
  /\ todo = [c \in Callers |-> {}]
  /\ work = [c \in Callers |-> NoWork]
  /\ clock = 0
  /\ asked = {} /\ told = {} /\ uses = <<>>
  /\ scene \in Scenarios
  /\ spent = [calls |-> 0, setbacks |-> 0, losses |-> 0]

-----------------------------------------------------------------------------
(***************************************************************************)
(* Reading.  Nothing is read that is not whole.                            *)
(***************************************************************************)
Whole(s) == files[s].there /\ files[s].good

Says(s) == CHOOSE b \in files[s].says : TRUE

Decided(x) == files[Decision(x)].there

\* _load_challenge_from_fd succeeds.
ChallengeLoads(x) ==
  /\ dirs[x] # "absent" /\ Whole(Challenge(x))
  /\ Decided(x) =>
       /\ Whole(Decision(x))
       /\ Says(Decision(x)).proposal = Says(Challenge(x)).proposal

\* _load_approval_from_fd succeeds.
ApprovalLoads(a) ==
  /\ dirs[a] # "absent" /\ Whole(Approval(a))
  /\ files[Terminal(a)].there =>
       /\ Whole(Terminal(a))
       /\ Says(Terminal(a)).proposal = Says(Approval(a)).proposal

\* _verify_approval_authority_chain: back to the decision of a human.
ChainHolds(a) ==
  \E x \in Says(Approval(a)).link :
    /\ ChallengeLoads(x) /\ Decided(x)
    /\ Says(Challenge(x)).proposal = Says(Approval(a)).proposal
    /\ Says(Decision(x)).word = "approved" /\ Says(Decision(x)).link = {a}

\* What consume requires before it claims.
Consumable(a) == ApprovalLoads(a) /\ ChainHolds(a) /\ ~files[Terminal(a)].there

-----------------------------------------------------------------------------
(***************************************************************************)
(* The frame of every call.                                                *)
(***************************************************************************)
Go(c, next) == pc' = [pc EXCEPT ![c] = next]

\* One more of what the scenario bounds.
Spend(kind) ==
  /\ spent[kind] < scene[kind] /\ spent' = [spent EXCEPT ![kind] = @ + 1]
  /\ UNCHANGED scene

\* The end of a call, by a return or an exception: the lock is released.
Leave(c) ==
  /\ Go(c, "idle") /\ lock' = lock \ {c}
  /\ call' = [call EXCEPT ![c] = NoCall] /\ now' = [now EXCEPT ![c] = 0]
  /\ todo' = [todo EXCEPT ![c] = {}] /\ work' = [work EXCEPT ![c] = NoWork]

Refuse(c) == Leave(c) /\ UNCHANGED <<store, clock, history, bounds>>

\* A human decides on a challenge that has been made, a run consumes an
\* approval that has been made; either may name the wrong proposal.
Possible ==
  {CreateCall(p) : p \in scene.proposals} \cup
  {DecideCall(x, p, v) : x \in drawn \cap ChallengeIds, p \in scene.proposals,
                         v \in {"approve", "reject"}} \cup
  {ConsumeCall(a, p, r) : a \in drawn \cap ApprovalIds, p \in scene.proposals,
                          r \in scene.runs}

Begin(c) ==
  /\ pc[c] = "idle" /\ Spend("calls")
  /\ \E what \in Possible :
        /\ call' = [call EXCEPT ![c] = what]
        /\ now' = [now EXCEPT ![c] = IF what.op = "consume" THEN 0 ELSE clock]
        /\ asked' = IF what.op = "decide" /\ what.verdict = "approve"
                    THEN asked \cup {[challenge |-> what.challenge,
                                      proposal |-> what.proposal, at |-> clock]}
                    ELSE asked
  /\ Go(c, "lock")
  /\ UNCHANGED <<store, lock, todo, work, clock, told, uses>>

\* Mutant: a shared lock.
AcquireShared(c) ==
  /\ pc[c] = "lock"
  /\ lock' = lock \cup {c}
  /\ Go(c, "begin")
  /\ UNCHANGED <<store, local, clock, history, bounds>>

Acquire(c) ==
  /\ pc[c] = "lock" /\ lock = {}
  /\ lock' = {c}
  /\ Go(c, "begin")
  /\ UNCHANGED <<store, local, clock, history, bounds>>

\* The caller turns to writing record says into file slot.
Turn(c, next, slot, says) ==
  /\ Go(c, next)
  /\ work' = [work EXCEPT ![c] = [slot |-> slot, says |-> {says}]]

-----------------------------------------------------------------------------
(***************************************************************************)
(* Writing a file: _create_private_file, then the directory, then the      *)
(* directory above.                                                        *)
(***************************************************************************)
FileStep(c, from, next, file) ==
  /\ pc[c] = from
  /\ files' = [files EXCEPT ![work[c].slot] = file]
  /\ Go(c, next)
  /\ UNCHANGED <<dirs, drawn, lock, local, clock, history, bounds>>

OpenFile(c) == FileStep(c, "open", "write", TornFile)

WriteFile(c) ==
  FileStep(c, "write", "sync",
           [files[work[c].slot] EXCEPT !.good = TRUE, !.synced = FALSE,
                                       !.says = work[c].says])

\* Mutant: the record is not fsynced.
SyncFileNot(c) == FileStep(c, "sync", "syncDir", files[work[c].slot])

SyncFile(c) ==
  FileStep(c, "sync", "syncDir", [files[work[c].slot] EXCEPT !.synced = TRUE])

\* Mutant: fsync of a directory does nothing.
LinkFilesNot(c, from, next) == FileStep(c, from, next, files[work[c].slot])

\* fsync of the challenge's or the approval's directory.
LinkFiles(c, from, next) ==
  /\ pc[c] = from
  /\ files' = [s \in Slots |-> IF s[2] = work[c].slot[2] /\ files[s].there
                               THEN [files[s] EXCEPT !.linked = TRUE] ELSE files[s]]
  /\ Go(c, next)
  /\ UNCHANGED <<dirs, drawn, lock, local, clock, history, bounds>>

\* Mutant: the directory of the new name is not fsynced.
SyncDirectoryNot(c) ==
  FileStep(c, "syncDir", "syncParent", files[work[c].slot])

SyncDirectory(c) == LinkFiles(c, "syncDir", "syncParent")

\* fsync of the directory of all challenges or of all approvals.
SyncParent(c) ==
  /\ pc[c] = "syncParent"
  /\ dirs' = [i \in DOMAIN dirs |->
                IF dirs[i] = "made" /\ (i \in ChallengeIds <=> work[c].slot[2] \in ChallengeIds)
                THEN "linked" ELSE dirs[i]]
  /\ Go(c, "written")
  /\ UNCHANGED <<files, drawn, lock, local, clock, history, bounds>>

-----------------------------------------------------------------------------
(***************************************************************************)
(* create_promotion_challenge.                                             *)
(***************************************************************************)
StartCreate(c) ==
  /\ pc[c] = "begin" /\ call[c].op = "create"
  /\ todo' = [todo EXCEPT ![c] = {x \in ChallengeIds : dirs[x] # "absent"}]
  /\ Go(c, "scan")
  /\ UNCHANGED <<store, lock, call, now, work, clock, history, bounds>>

\* A listed challenge that is waiting for its decision.
StillPending(c, x) ==
  /\ ChallengeLoads(x) /\ ~Decided(x)
  /\ now[c] >= Says(Challenge(x)).from /\ now[c] < Says(Challenge(x)).until

\* _expire_old_pending_challenges, one challenge; their order is that of
\* random names.
Scan(c) ==
  /\ pc[c] = "scan"
  /\ \E x \in todo[c] :
       /\ ~StillPending(c, x)
       /\ IF ~ChallengeLoads(x) \/ (~Decided(x) /\ now[c] < Says(Challenge(x)).from)
          THEN Refuse(c)
          ELSE /\ todo' = [todo EXCEPT ![c] = @ \ {x}]
               /\ IF Decided(x) THEN UNCHANGED <<pc, work>>
                  ELSE Turn(c, "open", Decision(x),
                            DecisionRecord("expired", Says(Challenge(x)).proposal, {}, now[c]))
               /\ UNCHANGED <<store, lock, call, now, clock, history, bounds>>

\* If a listed challenge is pending none is made; else a new directory is.
MakeChallenge(c) ==
  /\ pc[c] = "scan" /\ \A x \in todo[c] : StillPending(c, x)
  /\ IF todo[c] # {} THEN Refuse(c)
     ELSE \E x \in (ChallengeIds \cap scene.ids) \ drawn :
            /\ drawn' = drawn \cup {x}
            /\ dirs' = [dirs EXCEPT ![x] = "made"]
            /\ Turn(c, "open", Challenge(x), ChallengeRecord(call[c].proposal, now[c]))
            /\ UNCHANGED <<files, lock, call, now, todo, clock, history, bounds>>

\* What follows when a creation has written a file.
AfterCreateWrite(c) ==
  /\ pc[c] = "written" /\ call[c].op = "create"
  /\ IF work[c].slot[1] = "decision"
     THEN Go(c, "scan") /\ UNCHANGED <<store, lock, local, clock, history, bounds>>
     ELSE Refuse(c)

-----------------------------------------------------------------------------
(***************************************************************************)
(* decide_promotion_challenge.                                             *)
(***************************************************************************)
Decidable(c) ==
  LET x == call[c].challenge IN
  /\ ChallengeLoads(x) /\ Says(Challenge(x)).proposal = call[c].proposal
  /\ ~Decided(x)
  /\ now[c] >= Says(Challenge(x)).from

StartDecide(c) ==
  /\ pc[c] = "begin" /\ call[c].op = "decide"
  /\ LET x == call[c].challenge
         write(word, link) ==
           Turn(c, "open", Decision(x),
                DecisionRecord(word, call[c].proposal, link, now[c]))
     IN  IF ~Decidable(c) THEN Refuse(c)
         ELSE /\ IF now[c] >= Says(Challenge(x)).until
                 THEN write("expired", {}) /\ UNCHANGED drawn
                 ELSE IF call[c].verdict = "reject"
                 THEN write("rejected", {}) /\ UNCHANGED drawn
                 ELSE \E a \in (ApprovalIds \cap scene.ids) \ drawn :
                        write("approved", {a}) /\ drawn' = drawn \cup {a}
              /\ UNCHANGED <<dirs, files, lock, call, now, todo, clock, history, bounds>>

Tell(c, answer) ==
  /\ told' = told \cup {answer}
  /\ Leave(c)
  /\ UNCHANGED <<store, clock, asked, uses, bounds>>

\* Mutant: an expiry is reported like a decision.
AfterDecideWriteTold(c) ==
  /\ pc[c] = "written" /\ call[c].op = "decide"
  /\ LET x    == call[c].challenge
         says == CHOOSE b \in work[c].says : TRUE
     IN  IF says.word = "approved"
         THEN \E a \in says.link :
                /\ dirs' = [dirs EXCEPT ![a] = "made"]
                /\ Turn(c, "open", Approval(a), ApprovalRecord(call[c].proposal, x, now[c]))
                /\ UNCHANGED <<files, drawn, lock, call, now, todo, clock, history, bounds>>
         ELSE Tell(c, [challenge |-> x, word |-> says.word, link |-> says.link])

\* What follows when a decision has written a file: a rejection is reported,
\* an expiry raises, an approval gets its record and is then reported.
AfterDecideWrite(c) ==
  /\ pc[c] = "written" /\ call[c].op = "decide"
  /\ LET x    == call[c].challenge
         says == CHOOSE b \in work[c].says : TRUE
     IN  CASE says.word = "approved" ->
                \E a \in says.link :
                  /\ dirs' = [dirs EXCEPT ![a] = "made"]
                  /\ Turn(c, "open", Approval(a),
                          ApprovalRecord(call[c].proposal, x, now[c]))
                  /\ UNCHANGED <<files, drawn, lock, call, now, todo, clock, history, bounds>>
           [] says.word = "granted" ->
                Tell(c, [challenge |-> x, word |-> "approved", link |-> {work[c].slot[2]}])
           [] says.word = "rejected" ->
                Tell(c, [challenge |-> x, word |-> "rejected", link |-> {}])
           [] OTHER -> Refuse(c)

-----------------------------------------------------------------------------
(***************************************************************************)
(* consume_promotion_approval: the terminal file is claimed, durably and   *)
(* empty, before the clock is read and the record is written.              *)
(***************************************************************************)
ClaimTerminal(c) ==
  /\ pc[c] = "begin" /\ call[c].op = "consume"
  /\ LET a == call[c].approval IN
     IF ~Consumable(a) \/ Says(Approval(a)).proposal # call[c].proposal
     THEN Refuse(c)
     ELSE /\ files' = [files EXCEPT ![Terminal(a)] = TornFile]
          /\ work' = [work EXCEPT ![c] = [slot |-> Terminal(a), says |-> {}]]
          /\ Go(c, "claimSync")
          /\ UNCHANGED <<dirs, drawn, lock, call, now, todo, clock, history, bounds>>

SyncClaim(c) ==
  FileStep(c, "claimSync", "claimSyncDir", [files[work[c].slot] EXCEPT !.synced = TRUE])

SyncClaimDirectory(c) == LinkFiles(c, "claimSyncDir", "stamp")

\* Mutant: an approval is good for its last instant, too.
StampTerminalLate(c) ==
  /\ pc[c] = "stamp"
  /\ LET says == Says(Approval(call[c].approval))
         word == CASE clock < says.from  -> "revoked"
                   [] clock > says.until -> "expired"
                   [] OTHER              -> "consumed"
     IN  Turn(c, "write", work[c].slot,
              TerminalRecord(word, call[c].proposal,
                             IF word = "consumed" THEN {call[c].run} ELSE {}, clock))
  /\ UNCHANGED <<store, lock, call, now, todo, clock, history, bounds>>

\* Mutant: the clock is not checked against the creation of the approval.
StampTerminalEarly(c) ==
  /\ pc[c] = "stamp"
  /\ LET word == IF clock >= Says(Approval(call[c].approval)).until
                 THEN "expired" ELSE "consumed"
     IN  Turn(c, "write", work[c].slot,
              TerminalRecord(word, call[c].proposal,
                             IF word = "consumed" THEN {call[c].run} ELSE {}, clock))
  /\ UNCHANGED <<store, lock, call, now, todo, clock, history, bounds>>

\* The clock decides what the record will say.
StampTerminal(c) ==
  /\ pc[c] = "stamp"
  /\ LET says == Says(Approval(call[c].approval))
         word == CASE clock < says.from   -> "revoked"
                   [] clock >= says.until -> "expired"
                   [] OTHER               -> "consumed"
     IN  Turn(c, "write", work[c].slot,
              TerminalRecord(word, call[c].proposal,
                             IF word = "consumed" THEN {call[c].run} ELSE {}, clock))
  /\ UNCHANGED <<store, lock, call, now, todo, clock, history, bounds>>

\* Only a consumption is reported as one; an expiry or a revocation raises.
AfterConsumeWrite(c) ==
  /\ pc[c] = "written" /\ call[c].op = "consume"
  /\ LET says == CHOOSE b \in work[c].says : TRUE IN
     IF says.word # "consumed" THEN Refuse(c)
     ELSE /\ uses' = Append(uses,
               [approval |-> call[c].approval, run |-> call[c].run,
                proposal |-> call[c].proposal, at |-> says.from,
                challenge |-> Says(Approval(call[c].approval)).link])
          /\ Leave(c)
          /\ UNCHANGED <<store, clock, asked, told, bounds>>

-----------------------------------------------------------------------------
(***************************************************************************)
(* The environment.                                                        *)
(***************************************************************************)
\* Mutant: a failed consumption removes its claim.
RaiseUnclaims(c) ==
  /\ pc[c] # "idle"
  /\ files' = [s \in Slots |-> IF s = work[c].slot /\ s[1] = "terminal" THEN NoFile
                               ELSE files[s]]
  /\ Leave(c) /\ UNCHANGED <<dirs, drawn, clock, history, bounds>>

\* Any system call may fail, and a process may die at any: what it has written
\* stays, the lock is released.
Raise(c) == pc[c] # "idle" /\ Refuse(c)

Tick ==
  /\ clock < scene.clock /\ clock' = clock + 1
  /\ UNCHANGED <<store, lock, pc, local, history, bounds>>

\* The wall clock is set back.
SetBack ==
  /\ Spend("setbacks") /\ clock > 0
  /\ clock' = clock - 1
  /\ UNCHANGED <<store, lock, pc, local, history>>

\* A name that was not fsynced may be gone with all that is below it, bytes
\* that were not fsynced may be torn, every process is dead.
PowerLoss ==
  /\ Spend("losses")
  /\ \E goneDirs \in SUBSET {i \in DOMAIN dirs : dirs[i] = "made"},
        goneFiles \in SUBSET {s \in Slots : files[s].there /\ ~files[s].linked},
        torn \in SUBSET {s \in Slots : files[s].there /\ ~files[s].synced} :
       /\ dirs' = [i \in DOMAIN dirs |->
                     IF dirs[i] = "absent" \/ i \in goneDirs THEN "absent" ELSE "linked"]
       /\ files' = [s \in Slots |->
            IF ~files[s].there \/ s \in goneFiles \/ s[2] \in goneDirs THEN NoFile
            ELSE IF s \in torn THEN [TornFile EXCEPT !.synced = TRUE, !.linked = TRUE]
            ELSE [files[s] EXCEPT !.synced = TRUE, !.linked = TRUE]]
  /\ lock' = {}
  /\ pc' = [c \in Callers |-> "idle"]
  /\ call' = [c \in Callers |-> NoCall] /\ now' = [c \in Callers |-> 0]
  /\ todo' = [c \in Callers |-> {}] /\ work' = [c \in Callers |-> NoWork]
  /\ UNCHANGED <<drawn, clock, history>>

Step(c) ==
  \/ Acquire(c)
  \/ OpenFile(c) \/ WriteFile(c) \/ SyncFile(c) \/ SyncDirectory(c) \/ SyncParent(c)
  \/ StartCreate(c) \/ Scan(c) \/ MakeChallenge(c) \/ AfterCreateWrite(c)
  \/ StartDecide(c) \/ AfterDecideWrite(c)
  \/ ClaimTerminal(c) \/ SyncClaim(c) \/ SyncClaimDirectory(c)
  \/ StampTerminal(c) \/ AfterConsumeWrite(c)

Next ==
  \/ \E c \in Callers : Begin(c) \/ Step(c) \/ Raise(c)
  \/ Tick \/ SetBack \/ PowerLoss

Spec == Init /\ [][Next]_vars

-----------------------------------------------------------------------------
Words == {"asked", "approved", "rejected", "expired", "granted", "consumed", "revoked"}

Links == ChallengeIds \cup ApprovalIds \cup Runs

Records ==
  [word : Words, proposal : Proposals, link : SUBSET Links, from : Nat, until : Nat]

PCs ==
  {"idle", "lock", "begin", "scan", "open", "write", "sync", "syncDir", "syncParent",
   "written", "claimSync", "claimSyncDir", "stamp"}

AllCalls ==
  {NoCall} \cup [op : {"create"}, proposal : Proposals]
  \cup [op : {"decide"}, challenge : ChallengeIds, proposal : Proposals,
        verdict : {"approve", "reject"}]
  \cup [op : {"consume"}, approval : ApprovalIds, proposal : Proposals, run : Runs]

TypeOK ==
  /\ dirs \in [ChallengeIds \cup ApprovalIds -> {"absent", "made", "linked"}]
  /\ files \in [Slots -> [there : BOOLEAN, good : BOOLEAN, synced : BOOLEAN,
                          linked : BOOLEAN, says : SUBSET Records]]
  /\ drawn \subseteq ChallengeIds \cup ApprovalIds
  /\ lock \subseteq Callers
  /\ pc \in [Callers -> PCs] /\ call \in [Callers -> AllCalls]
  /\ now \in [Callers -> Nat] /\ todo \in [Callers -> SUBSET ChallengeIds]
  /\ work \in [Callers -> [slot : Slots \cup {<<>>}, says : SUBSET Records]]
  /\ clock \in Nat
  /\ asked \subseteq [challenge : ChallengeIds, proposal : Proposals, at : Nat]
  /\ told \subseteq [challenge : ChallengeIds, word : {"approved", "rejected"},
                     link : SUBSET ApprovalIds]
  /\ uses \in Seq([approval : ApprovalIds, run : Runs, proposal : Proposals,
                   at : Nat, challenge : SUBSET ChallengeIds])
  /\ scene \in Scenarios
  /\ spent \in [calls : Nat, setbacks : Nat, losses : Nat]

\* One decision of a human lets one run go ahead, whoever asks, how often, and
\* whatever dies in between: no two consumptions return for one approval, nor
\* for two approvals of one challenge (the O_EXCL claim of the terminal file
\* and the single decision file).
OneUse ==
  \A i, j \in DOMAIN uses :
    uses[i].approval = uses[j].approval \/ uses[i].challenge = uses[j].challenge => i = j

\* Behind every consumption is a human who asked to approve this challenge for
\* this proposal, and not longer ago, on the clock, than an approval lives,
\* however long the call waited for the lock.
UseIsAuthorised ==
  \A i \in DOMAIN uses :
    \E h \in asked :
      /\ uses[i].challenge = {h.challenge} /\ uses[i].proposal = h.proposal
      /\ h.at <= uses[i].at /\ uses[i].at < h.at + ApprovalLifetime

Durable(s) ==
  /\ Whole(s) /\ files[s].synced /\ files[s].linked
  /\ dirs[s[2]] = "linked"

\* What a decision or a consumption has returned is durable: no failure of a
\* later call and no power loss takes it back or turns it into its opposite.
ToldIsDurable ==
  /\ \A t \in told :
       /\ Durable(Decision(t.challenge))
       /\ Says(Decision(t.challenge)).word = t.word
       /\ Says(Decision(t.challenge)).link = t.link
       /\ \A a \in t.link : Durable(Approval(a))
  /\ \A i \in DOMAIN uses :
       /\ Durable(Terminal(uses[i].approval))
       /\ Says(Terminal(uses[i].approval)).word = "consumed"
       /\ Says(Terminal(uses[i].approval)).link = {uses[i].run}

\* The durable decision on challenge x grants approval a.
Approves(x, a) ==
  /\ Durable(Decision(x))
  /\ Says(Decision(x)).word = "approved" /\ Says(Decision(x)).link = {a}

\* No approval exists, not even half written, whose approving decision could
\* still be lost: the decision is durable before the approval is begun.  (Its
\* challenge need not be: a creation that fails between the write and the fsync
\* of challenge.json leaves a challenge that can be decided all the same.)
DecisionFirst ==
  \A a \in ApprovalIds : dirs[a] # "absent" => \E x \in ChallengeIds : Approves(x, a)

\* A human is never asked two questions at once: one challenge is undecided at
\* most, also when creations race, die or work with a clock read long before.
\* (Without power losses: a decision whose call failed before its fsync counts
\* until a power loss takes it back.)
Open == {x \in ChallengeIds : dirs[x] # "absent" /\ ~Decided(x)}

OneQuestion == spent.losses = 0 => Cardinality(Open) <= 1

-----------------------------------------------------------------------------
(***************************************************************************)
(* Why these hold: the inductive invariant, by parts.                      *)
(***************************************************************************)
LockInv == \A c \in Callers : pc[c] \notin {"idle", "lock"} => lock = {c}

\* An approving call was asked for by a human when its clock was read.
AskedInv ==
  \A c \in Callers :
    call[c].op = "decide" /\ call[c].verdict = "approve" =>
      [challenge |-> call[c].challenge, proposal |-> call[c].proposal, at |-> now[c]] \in asked

\* An approval's record names the challenge whose decision grants it, and the
\* time at which a human asked for it.
Grants(b, a) ==
  /\ b.until = b.from + ApprovalLifetime
  /\ \E x \in ChallengeIds :
       /\ b.link = {x} /\ Approves(x, a)
       /\ [challenge |-> x, proposal |-> b.proposal, at |-> b.from] \in asked

\* Record b may be in file s.
Fits(s, b) ==
  /\ s[1] = "challenge" => b.word = "asked"
  /\ s[1] = "decision" =>
       \/ b.word \in {"rejected", "expired"} /\ b.link = {}
       \/ b.word = "approved" /\ \E a \in ApprovalIds : b.link = {a}
  /\ s[1] = "approval" => b.word = "granted" /\ Grants(b, s[2])
  /\ s[1] = "terminal" => b.word \in {"consumed", "expired", "revoked"}

\* A file is below a directory, a directory has a name that was drawn, and what
\* can be read was written there.
FilesInv ==
  /\ \A i \in ChallengeIds \cup ApprovalIds : dirs[i] # "absent" => i \in drawn
  /\ \A s \in Slots :
       /\ files[s].there => dirs[s[2]] # "absent"
       /\ ~files[s].there => files[s] = NoFile
       /\ files[s].good => \E b \in files[s].says : files[s].says = {b} /\ Fits(s, b)

WritingPCs == {"open", "write", "sync", "syncDir", "syncParent", "written"}
ClaimingPCs == {"claimSync", "claimSyncDir", "stamp"}

\* Which file a call is writing, and what it will say.
WritesFor(c, b) ==
  LET s == work[c].slot IN
  CASE call[c].op = "create" ->
         \E x \in ChallengeIds : s = Challenge(x) \/ (s = Decision(x) /\ b.word = "expired")
    [] call[c].op = "decide" ->
         \/ /\ s = Decision(call[c].challenge)
            /\ b.word = "approved" =>
                 /\ call[c].verdict = "approve"
                 /\ \A a \in b.link : dirs[a] = "absent" /\ a \in drawn
         \/ (\E a \in ApprovalIds : s = Approval(a)) /\ b.link = {call[c].challenge}
    [] call[c].op = "consume" ->
         /\ s = Terminal(call[c].approval) /\ pc[c] # "open"
         /\ b.word = "consumed" =>
              /\ b.link = {call[c].run}
              /\ Says(Approval(call[c].approval)).from <= b.from
              /\ b.from < Says(Approval(call[c].approval)).until
    [] OTHER -> FALSE

\* How far the file of a call has come.
WriteAt(c) ==
  LET file == files[work[c].slot]
  IN  /\ work[c].slot \in Slots /\ dirs[work[c].slot[2]] # "absent"
      /\ pc[c] = "open" <=> ~file.there
      /\ file.good <=> pc[c] \in {"sync", "syncDir", "syncParent", "written"}
      /\ file.good => file.says = work[c].says
      /\ pc[c] \in {"syncDir", "syncParent", "written"} => file.synced
      /\ pc[c] \in {"syncParent", "written"} => file.linked
      /\ pc[c] = "written" => dirs[work[c].slot[2]] = "linked"
      /\ pc[c] \in WritingPCs =>
           \E b \in work[c].says : work[c].says = {b} /\ Fits(work[c].slot, b) /\ WritesFor(c, b)

\* Whoever has claimed an approval still reads it, and nobody has used it.
ClaimAt(c) ==
  LET a == call[c].approval
  IN  /\ work[c].slot = Terminal(a)
      /\ Whole(Approval(a)) /\ Says(Approval(a)).proposal = call[c].proposal
      /\ \A i \in DOMAIN uses : uses[i].approval # a

WorkInv ==
  \A c \in Callers :
    /\ pc[c] = "scan" => call[c].op = "create"
    /\ pc[c] \in ClaimingPCs => call[c].op = "consume"
    /\ pc[c] \in ClaimingPCs \cup WritingPCs => WriteAt(c)
    /\ pc[c] \in ClaimingPCs \cup WritingPCs /\ call[c].op = "consume" => ClaimAt(c)

\* Behind every use is the durable decision on its challenge.
UsesInv ==
  \A i \in DOMAIN uses :
    \E x \in ChallengeIds : uses[i].challenge = {x} /\ Approves(x, uses[i].approval)

\* Until power is lost at most one challenge is undecided, and a creation has
\* all of them before it.
QuestionInv ==
  spent.losses = 0 =>
    /\ \A x, y \in Open : x = y
    /\ \A c \in Callers :
         /\ pc[c] = "scan" => Open \subseteq todo[c]
         /\ pc[c] \in WritingPCs /\ call[c].op = "create" /\ work[c].slot[1] = "decision" =>
              Open \subseteq todo[c] \cup {work[c].slot[2]}

\* A challenge that is being written has not been decided.
ChallengeFirst ==
  \A c \in Callers, x \in ChallengeIds :
    pc[c] \in WritingPCs /\ work[c].slot = Challenge(x) => ~Decided(x)

StoreInv ==
  /\ TypeOK /\ LockInv /\ AskedInv /\ FilesInv /\ WorkInv /\ DecisionFirst
  /\ ToldIsDurable /\ UsesInv /\ OneUse /\ UseIsAuthorised /\ QuestionInv

\* An approval is used once, by an authorised run, and rests on a decision that
\* nothing can take back.
ApprovalIsSound == StoreInv /\ ChallengeFirst

-----------------------------------------------------------------------------
(***************************************************************************)
(* The store implements OneUseApproval.                                    *)
(***************************************************************************)
ClaimPCs ==
  {"claimSync", "claimSyncDir", "stamp", "write", "sync", "syncDir", "syncParent",
   "written"}

Claimants(a) ==
  {c \in Callers : pc[c] \in ClaimPCs /\ work[c].slot = Terminal(a)}

UsersOf(a) == {uses[i].run : i \in {j \in DOMAIN uses : uses[j].approval = a}}

Phase(a) ==
  IF UsersOf(a) # {} THEN <<"used", UsersOf(a)>>
  ELSE IF Claimants(a) # {} THEN <<"claimed", {call[c].run : c \in Claimants(a)}>>
  ELSE IF files[Terminal(a)].there THEN <<"burnt", {}>>
  ELSE IF Consumable(a) THEN <<"offered", {}>> ELSE <<"withheld", {}>>

Promise == INSTANCE OneUseApproval WITH
             Approvals <- ApprovalIds, UseRuns <- Runs,
             phase <- [a \in ApprovalIds |-> Phase(a)], losses <- spent.losses

\* Whatever fails or dies, an approval goes from an offer to one claim, and from
\* the claim to one use by the run that claimed it or to nothing; only a power
\* loss before the claim is durable puts it back on offer.
ImplementsOneUse == Promise!OSpec
=============================================================================
