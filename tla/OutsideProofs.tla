--------------------------- MODULE OutsideProofs ---------------------------
(***************************************************************************)
(* What the program may rely on of a world that it does not control.  The  *)
(* results of the sandbox, of a worker and of the calls of one Aider       *)
(* request are true, for any limits, any output and any daemon; and what   *)
(* is read of a tree of files piece by piece, at the intake of a promotion *)
(* and when a workspace is seeded, was there at one moment, for any paths, *)
(* contents and commits, whatever the tree's user does meanwhile, as far   *)
(* as looking twice can tell.                                              *)
(***************************************************************************)
EXTENDS MCOutside, TLAPS

-----------------------------------------------------------------------------
(***************************************************************************)
(* A run of the sandbox (SandboxRun).                                      *)
(***************************************************************************)
SandboxIInv == TypeOK /\ SandboxInv

LEMMA SandboxInit ==
  ASSUME Init
  PROVE  SandboxIInv
<1>1. /\ kept \in [Streams -> 0 .. Limit] /\ written \in [Streams -> 0 .. MaxWritten]
      /\ unread \in [Streams -> 0 .. MaxWritten]
  BY SandboxAssumption DEF Init
<1>2. holders \in [Streams -> SUBSET Writers] /\ truncated \in [Streams -> BOOLEAN]
  BY DEF Init, Writers
<1>3. TypeOK
  BY <1>1, <1>2 DEF Init, TypeOK
<1>4. \A s \in Streams : kept[s] = 0 /\ written[s] = 0 /\ unread[s] = 0 /\ ~truncated[s]
  BY DEF Init
<1>5. SandboxInv
  <2>1. /\ pc = "top" /\ events = {} /\ registered = Streams /\ ~terminating
        /\ leader = "running"
    BY DEF Init
  <2>2. ~(0 - 0 > Limit) /\ 0 - 0 = 0
    BY SandboxAssumption
  <2> QED BY <1>4, <2>1, <2>2 DEF SandboxInv
<1> QED BY <1>3, <1>5 DEF SandboxIInv

\* The steps of the executor's loop that read no pipe and signal nobody.
LEMMA LoopTurns ==
  ASSUME SandboxIInv,
         \/ Drained \/ TimeOut \/ GiveUpDraining \/ LoopOn \/ KillRefused
         \/ Select \/ Return \/ GiveUpWaiting
  PROVE  SandboxIInv'
<1> USE SandboxAssumption DEF SandboxIInv, sandbox
<1>1. TypeOK'
  BY DEF TypeOK, Drained, TimeOut, GiveUpDraining, LoopOn, KillRefused, Select, Return,
         GiveUpWaiting
<1>2. SandboxInv'
  BY DEF TypeOK, SandboxInv, Drained, TimeOut, GiveUpDraining, LoopOn, KillRefused, Select,
         Return, GiveUpWaiting
<1> QED BY <1>1, <1>2

LEMMA LoopKills ==
  ASSUME SandboxIInv, KillAndDrain
  PROVE  SandboxIInv'
<1> USE SandboxAssumption DEF SandboxIInv, KillAndDrain, Kill
<1>1. TypeOK'
  BY DEF TypeOK, Writers
<1>2. SandboxInv'
  BY DEF TypeOK, SandboxInv
<1> QED BY <1>1, <1>2

LEMMA LoopMeetsTheEnd ==
  ASSUME SandboxIInv, NEW s \in Streams, EndOfFile(s)
  PROVE  SandboxIInv'
<1> USE SandboxAssumption DEF SandboxIInv, EndOfFile, sandbox
<1>1. TypeOK'
  BY DEF TypeOK
<1>2. SandboxInv'
  BY DEF TypeOK, SandboxInv
<1> QED BY <1>1, <1>2

LEMMA LoopReads ==
  ASSUME SandboxIInv, NEW s \in Streams, ReadChunk(s)
  PROVE  SandboxIInv'
<1> USE SandboxAssumption DEF SandboxIInv
<1> DEFINE chunk == IF unread[s] < PipeRead THEN unread[s] ELSE PipeRead
           over == chunk > Limit - kept[s]
<1>0. /\ chunk \in Nat /\ chunk <= unread[s] /\ unread[s] > 0
      /\ unread[s] \in Nat /\ written[s] \in Nat /\ kept[s] \in 0 .. Limit
      /\ over \in BOOLEAN
  BY DEF TypeOK, ReadChunk
<1>1. /\ pc = "read" /\ s \in events
      /\ unread' = [unread EXCEPT ![s] = @ - chunk]
      /\ kept' = [kept EXCEPT ![s] = IF kept[s] + chunk > Limit THEN Limit ELSE kept[s] + chunk]
      /\ truncated' = [truncated EXCEPT ![s] = @ \/ over]
      /\ events' = events \ {s}
      /\ pc' = IF over /\ ~terminating THEN "kill"
               ELSE IF events' = {} THEN "top" ELSE "read"
      /\ UNCHANGED <<registered, timedOut, terminating, late, drained, leader, helper, holders,
                     written>>
  BY DEF ReadChunk, AppendBounded
<1> HIDE DEF chunk, over
<1>2. TypeOK'
  BY <1>0, <1>1 DEF TypeOK
<1>3. \A t \in Streams :
        /\ unread'[t] <= written'[t]
        /\ truncated'[t] <=> written'[t] - unread'[t] > Limit
        /\ kept'[t] = IF written'[t] - unread'[t] > Limit THEN Limit
                      ELSE written'[t] - unread'[t]
  <2> TAKE t \in Streams
  <2>1. CASE t = s
    <3>1. over <=> (chunk > Limit - kept[s])
      BY DEF over
    <3>2. (truncated'[s] <=> truncated[s] \/ over) /\ unread'[s] = unread[s] - chunk
      BY <1>1 DEF TypeOK
    <3>3. /\ unread[s] <= written[s]
          /\ truncated[s] <=> written[s] - unread[s] > Limit
          /\ kept[s] = IF written[s] - unread[s] > Limit THEN Limit
                       ELSE written[s] - unread[s]
      BY DEF SandboxInv
    <3>4. /\ written'[s] = written[s]
          /\ kept'[s] = IF kept[s] + chunk > Limit THEN Limit ELSE kept[s] + chunk
      BY <1>1 DEF TypeOK
    <3>5. /\ unread'[s] <= written'[s]
          /\ kept'[s] = IF written'[s] - unread'[s] > Limit THEN Limit
                        ELSE written'[s] - unread'[s]
      BY <1>0, <3>2, <3>3, <3>4
    <3>6. truncated'[s] <=> written'[s] - unread'[s] > Limit
      <4>1. truncated[s] \/ over <=> written[s] - (unread[s] - chunk) > Limit
        <5>1. CASE truncated[s]
          BY <1>0, <3>1, <3>3, <5>1
        <5>2. CASE ~truncated[s]
          BY <1>0, <3>1, <3>3, <5>2
        <5> QED BY <5>1, <5>2
      <4> QED BY <3>2, <3>4, <4>1
    <3> QED BY <2>1, <3>5, <3>6
  <2>2. CASE t # s
    BY <1>1, <2>2 DEF TypeOK, SandboxInv
  <2> QED BY <2>1, <2>2
<1>4. \A t \in Streams :
        /\ t \notin registered' => unread'[t] = 0 /\ holders'[t] = {}
        /\ t \in events' => unread'[t] > 0 \/ holders'[t] = {}
  BY <1>0, <1>1 DEF TypeOK, SandboxInv
<1>5. over => truncated'[s]
  BY <1>1 DEF TypeOK
<1>6. \A t \in Streams : truncated[t] => truncated'[t]
  BY <1>1 DEF TypeOK
<1> QED BY <1>1, <1>2, <1>3, <1>4, <1>5, <1>6 DEF SandboxInv

LEMMA ProgramsRun ==
  ASSUME SandboxIInv, Sandbox \/ Tick
  PROVE  SandboxIInv'
<1> USE SandboxAssumption DEF SandboxIInv, loop, sandbox
<1>1. ASSUME NEW w \in Writers, NEW s \in Streams, Write(w, s)
      PROVE  SandboxIInv'
  <2>1. TypeOK'
    BY <1>1 DEF TypeOK, SandboxInv, Write
  <2>2. SandboxInv'
    BY <1>1 DEF TypeOK, SandboxInv, Write
  <2> QED BY <2>1, <2>2
<1>2. ASSUME NEW w \in Writers, NEW s \in Streams, CloseStream(w, s)
      PROVE  SandboxIInv'
  BY <1>2 DEF TypeOK, SandboxInv, CloseStream
<1>3. ASSUME Fork
      PROVE  SandboxIInv'
  <2>1. TypeOK'
    BY <1>3 DEF TypeOK, Fork, Writers
  <2>2. SandboxInv'
    BY <1>3 DEF TypeOK, SandboxInv, Fork
  <2> QED BY <2>1, <2>2
<1>4. ASSUME HelperEnds
      PROVE  SandboxIInv'
  BY <1>4 DEF TypeOK, SandboxInv, HelperEnds
<1>5. ASSUME NEW status \in {"zero", "nonzero"}, LeaderExits(status)
      PROVE  SandboxIInv'
  BY <1>5 DEF TypeOK, SandboxInv, LeaderExits
<1>6. ASSUME Tick
      PROVE  SandboxIInv'
  <2>1. UNCHANGED <<loop, sandbox>> /\ {late', drained'} \subseteq BOOLEAN
    BY <1>6 DEF TypeOK, Tick
  <2>2. TypeOK'
    BY <2>1 DEF TypeOK
  <2>3. SandboxInv'
    BY <2>1 DEF SandboxInv
  <2> QED BY <2>2, <2>3
<1> QED BY <1>1, <1>2, <1>3, <1>4, <1>5, <1>6 DEF Sandbox

LEMMA SandboxStep ==
  ASSUME SandboxIInv, [Next]_vars
  PROVE  SandboxIInv'
<1>1. CASE UNCHANGED vars
  BY <1>1 DEF SandboxIInv, TypeOK, SandboxInv, vars, loop, sandbox
<1>2. CASE Loop
  BY <1>2, LoopTurns, LoopKills, LoopMeetsTheEnd, LoopReads DEF Loop
<1>3. CASE Sandbox \/ Tick
  BY <1>3, ProgramsRun
<1> QED BY <1>1, <1>2, <1>3 DEF Next

LEMMA SandboxResult ==
  ASSUME SandboxIInv
  PROVE  OutputIsAccounted /\ UnmarkedIsOwn /\ ResultMeansEnded
<1> USE SandboxAssumption DEF SandboxIInv
<1>1. OutputIsAccounted
  BY DEF TypeOK, SandboxInv, OutputIsAccounted
<1>2. UnmarkedIsOwn
  BY DEF TypeOK, SandboxInv, UnmarkedIsOwn
<1>3. ResultMeansEnded
  BY DEF SandboxInv, ResultMeansEnded, Running
<1> QED BY <1>1, <1>2, <1>3

-----------------------------------------------------------------------------
(***************************************************************************)
(* A run of an external worker (WorkerProcess).                            *)
(***************************************************************************)
WorkerIInv == Worker!TypeOK /\ Worker!WorkerInv

LEMMA WorkerBounds ==
  Limit \in Nat /\ PipeRead \in Nat \ {0} /\ MaxWritten \in Nat
BY SandboxAssumption

LEMMA WorkerInit ==
  ASSUME Worker!Init
  PROVE  WorkerIInv
<1>1. Worker!TypeOK
  <2>1. {timedOut, expired, closed, truncated, grouped} \subseteq BOOLEAN
    BY DEF Worker!Init
  <2>2. captured \in 0 .. Limit /\ {written, unread} \subseteq 0 .. MaxWritten
    BY WorkerBounds DEF Worker!Init
  <2> QED BY <2>1, <2>2 DEF Worker!Init, Worker!TypeOK, Worker!Processes
<1>2. Worker!WorkerInv
  BY WorkerBounds DEF Worker!Init, Worker!WorkerInv
<1> QED BY <1>1, <1>2 DEF WorkerIInv

LEMMA WorkerSignals ==
  ASSUME WorkerIInv, Worker!Terminate \/ Worker!Kill
  PROVE  WorkerIInv'
<1> USE DEF WorkerIInv, Worker!thread
<1>1. PICK these \in SUBSET {"leader", "helper"} : Worker!EndBySignal(these)
  BY DEF Worker!Terminate, Worker!Kill, Worker!Signal, Worker!Processes
<1>2. /\ pc \in {"term", "kill"} /\ pc' \in {"wait_term", "wait_kill"} /\ expired' = FALSE
      /\ UNCHANGED <<timedOut, closed, reader, captured, truncated>>
  BY DEF Worker!Terminate, Worker!Kill, Worker!Signal, Worker!WaitAt
<1>3. Worker!TypeOK'
  BY <1>1, <1>2 DEF Worker!TypeOK, Worker!EndBySignal
<1>4. Worker!WorkerInv'
  BY <1>1, <1>2 DEF Worker!TypeOK, Worker!WorkerInv, Worker!EndBySignal
<1> QED BY <1>3, <1>4

LEMMA WorkerWaits ==
  ASSUME WorkerIInv,
         \/ Worker!LeaderEnded \/ Worker!TimeOut \/ Worker!StillThere
         \/ Worker!GiveUpKilling \/ Worker!ClosePipe \/ Worker!Return
         \/ Worker!RaiseCapture \/ Worker!Tick
  PROVE  WorkerIInv'
<1> USE DEF WorkerIInv, Worker!thread, Worker!processes, Worker!WaitAt, Worker!Ended,
            Worker!ReaderDone, Worker!LeaderEnded, Worker!TimeOut, Worker!StillThere,
            Worker!GiveUpKilling, Worker!ClosePipe, Worker!Return, Worker!RaiseCapture,
            Worker!Tick
<1>1. /\ UNCHANGED <<reader, captured, truncated, leader, helper, grouped, holders, written,
                     unread>>
      /\ pc' \in {"wait", "term", "wait_term", "kill", "wait_kill", "join", "rejoin",
                  "returned", "raised"}
  BY DEF Worker!TypeOK
<1>2. {timedOut', expired', closed'} \subseteq BOOLEAN
  BY DEF Worker!TypeOK
<1>3. Worker!TypeOK'
  BY <1>1, <1>2 DEF Worker!TypeOK
<1>4. Worker!WorkerInv'
  BY <1>1 DEF Worker!TypeOK, Worker!WorkerInv
<1> QED BY <1>3, <1>4

LEMMA WorkerReads ==
  ASSUME WorkerIInv, Worker!Reader
  PROVE  WorkerIInv'
<1> USE WorkerBounds DEF WorkerIInv, Worker!caller, Worker!processes
<1>1. CASE Worker!ReadChunk
  <2> DEFINE chunk == IF unread < PipeRead THEN unread ELSE PipeRead
  <2>1. /\ chunk \in Nat /\ chunk <= unread /\ written \in Nat /\ unread \in 0 .. MaxWritten
        /\ captured \in 0 .. Limit
    BY <1>1 DEF Worker!TypeOK, Worker!ReadChunk
  <2>2. /\ captured' = IF captured + chunk > Limit THEN Limit ELSE captured + chunk
        /\ truncated' = (truncated \/ captured + chunk > Limit)
        /\ unread' = unread - chunk
        /\ reader = "read" /\ reader' = "top"
        /\ UNCHANGED <<pc, timedOut, expired, closed, leader, helper, grouped, holders, written>>
    BY <1>1 DEF Worker!ReadChunk, Worker!Keep
  <2> HIDE DEF chunk
  <2>3. Worker!TypeOK'
    BY <2>1, <2>2 DEF Worker!TypeOK
  <2>4. /\ unread <= written
        /\ truncated <=> written - unread > Limit
        /\ captured = IF written - unread > Limit THEN Limit ELSE written - unread
    BY DEF Worker!WorkerInv
  <2>5. truncated' <=> written - unread' > Limit
    <3>1. truncated' <=> truncated \/ captured + chunk > Limit
      BY <2>2
    <3>2. written - unread > Limit \/ captured + chunk > Limit
            <=> written - (unread - chunk) > Limit
      BY <2>1, <2>4
    <3> QED BY <2>2, <2>4, <3>1, <3>2
  <2>6. /\ unread' <= written
        /\ captured' = IF written - unread' > Limit THEN Limit ELSE written - unread'
    BY <2>1, <2>2, <2>4
  <2>7. Worker!WorkerInv'
    BY <2>2, <2>5, <2>6 DEF Worker!WorkerInv
  <2> QED BY <2>3, <2>7
<1>2. CASE Worker!AskFileno \/ Worker!ReaderFails \/ Worker!EndOfFile
  <2>1. Worker!TypeOK'
    BY <1>2 DEF Worker!TypeOK, Worker!AskFileno, Worker!ReaderFails, Worker!EndOfFile
  <2>2. Worker!WorkerInv'
    BY <1>2 DEF Worker!WorkerInv, Worker!AskFileno, Worker!ReaderFails, Worker!EndOfFile
  <2> QED BY <2>1, <2>2
<1> QED BY <1>1, <1>2 DEF Worker!Reader

LEMMA WorkerRuns ==
  ASSUME WorkerIInv, Worker!External
  PROVE  WorkerIInv'
<1> USE WorkerBounds DEF WorkerIInv, Worker!caller, Worker!thread, Worker!Processes
<1>1. ASSUME NEW p \in {"leader", "helper"}, Worker!Write(p)
      PROVE  WorkerIInv'
  <2>1. Worker!TypeOK'
    BY <1>1 DEF Worker!TypeOK, Worker!WorkerInv, Worker!Write
  <2>2. Worker!WorkerInv'
    BY <1>1 DEF Worker!TypeOK, Worker!WorkerInv, Worker!Write
  <2> QED BY <2>1, <2>2
<1>2. ASSUME NEW p \in {"leader", "helper"}, Worker!CloseStdout(p)
      PROVE  WorkerIInv'
  BY <1>2 DEF Worker!TypeOK, Worker!WorkerInv, Worker!CloseStdout
<1>3. ASSUME NEW group \in BOOLEAN, Worker!Fork(group)
      PROVE  WorkerIInv'
  BY <1>3 DEF Worker!TypeOK, Worker!WorkerInv, Worker!Fork
<1>4. ASSUME NEW status \in {"zero", "nonzero"}, Worker!LeaderExits(status)
      PROVE  WorkerIInv'
  BY <1>4 DEF Worker!TypeOK, Worker!WorkerInv, Worker!LeaderExits
<1>5. ASSUME Worker!LeaderDies \/ Worker!HelperEnds
      PROVE  WorkerIInv'
  <2>1. Worker!TypeOK'
    BY <1>5 DEF Worker!TypeOK, Worker!LeaderDies, Worker!HelperEnds
  <2>2. Worker!WorkerInv'
    BY <1>5 DEF Worker!WorkerInv, Worker!LeaderDies, Worker!HelperEnds
  <2> QED BY <2>1, <2>2
<1> QED BY <1>1, <1>2, <1>3, <1>4, <1>5 DEF Worker!External

LEMMA WorkerStep ==
  ASSUME WorkerIInv, [Worker!Next]_(Worker!vars)
  PROVE  WorkerIInv'
<1>1. CASE UNCHANGED Worker!vars
  BY <1>1 DEF WorkerIInv, Worker!TypeOK, Worker!WorkerInv, Worker!vars, Worker!caller,
              Worker!thread, Worker!processes
<1>2. CASE Worker!Next
  BY <1>2, WorkerSignals, WorkerWaits, WorkerReads, WorkerRuns
     DEF Worker!Next, Worker!Caller
<1> QED BY <1>1, <1>2

LEMMA WorkerResult ==
  ASSUME WorkerIInv
  PROVE  Worker!LogIsAccounted /\ Worker!StatusIsItsOwn
<1>1. Worker!LogIsAccounted
  BY WorkerBounds DEF WorkerIInv, Worker!TypeOK, Worker!WorkerInv, Worker!LogIsAccounted
<1>2. Worker!StatusIsItsOwn
  BY DEF WorkerIInv, Worker!TypeOK, Worker!WorkerInv, Worker!StatusIsItsOwn, Worker!Status
<1> QED BY <1>1, <1>2

-----------------------------------------------------------------------------
(***************************************************************************)
(* The calls of one Aider request and the Docker daemon (AiderContainer).  *)
(***************************************************************************)
AiderIInv == Aider!TypeOK /\ Aider!AiderInv

LEMMA AiderConstants ==
  Aider!Nobody \notin Callers /\ MayDie \in BOOLEAN /\ MayFail \in BOOLEAN
BY ChildrenAssumption DEF Aider!AiderAssumption

LEMMA AiderInit ==
  ASSUME Aider!Init
  PROVE  AiderIInv
<1>1. Aider!TypeOK
  BY AiderConstants DEF Aider!Init, Aider!TypeOK, Aider!Absent
<1>2. Aider!AiderInv
  BY AiderConstants DEF Aider!Init, Aider!AiderInv, Aider!Absent
<1> QED BY <1>1, <1>2 DEF AiderIInv

\* What a step of run() may do to the container: nothing, or remove it.
LEMMA CallMoves ==
  ASSUME AiderIInv, NEW c \in Callers,
         \/ Aider!Check(c) \/ Aider!ClientReturned(c) \/ Aider!Inspect(c)
         \/ Aider!Remove(c) \/ Aider!Rm(c) \/ Aider!Verify(c)
         \/ Aider!RmLost(c) \/ Aider!Raise(c) \/ Aider!Die(c)
  PROVE  AiderIInv'
<1> USE AiderConstants DEF AiderIInv, Aider!Goto, Aider!Removed
<1>1. PICK next : pc' = [pc EXCEPT ![c] = next]
  BY DEF Aider!Check, Aider!ClientReturned, Aider!Inspect, Aider!Remove, Aider!Rm,
         Aider!Verify, Aider!RmLost, Aider!Raise, Aider!Die
<1>2. /\ next \in {"start", "state", "remove", "rm", "verify", "returned", "raised", "dead"}
      /\ next = "start" => pc[c] = "check"
      /\ next \in {"state", "remove", "rm", "verify", "returned"} =>
           (outcome[c] # "none" \/ pc[c] \in {"state", "remove", "rm", "verify"})
      /\ next = "returned" => container' = Aider!Absent
  BY <1>1 DEF Aider!Check, Aider!ClientReturned, Aider!Inspect, Aider!Remove, Aider!Rm,
         Aider!Verify, Aider!RmLost, Aider!Raise, Aider!Die, Aider!TypeOK
<1>3. /\ evicting' \in [Callers -> BOOLEAN] /\ force' \in [Callers -> BOOLEAN]
      /\ UNCHANGED <<outcome, client, request, ended>>
      /\ container' \in {container, Aider!Absent}
  BY DEF Aider!Check, Aider!ClientReturned, Aider!Inspect, Aider!Remove, Aider!Rm,
         Aider!Verify, Aider!RmLost, Aider!Raise, Aider!Die, Aider!TypeOK
<1>4. Aider!TypeOK'
  <2>1. /\ container' \in [by : Callers \cup {Aider!Nobody},
                           state : {"absent", "created", "running", "exited"}]
        /\ (container'.by = Aider!Nobody) = (container'.state = "absent")
    BY <1>3 DEF Aider!TypeOK, Aider!Absent
  <2>2. pc' \in [Callers -> {"check", "start", "run", "state", "remove", "rm", "verify",
                             "returned", "raised", "dead"}]
    BY <1>1, <1>2 DEF Aider!TypeOK
  <2> QED BY <1>3, <2>1, <2>2 DEF Aider!TypeOK
<1>5. Aider!AiderInv'
  BY <1>1, <1>2, <1>3 DEF Aider!TypeOK, Aider!AiderInv, Aider!Absent
<1> QED BY <1>4, <1>5

LEMMA ClientMoves ==
  ASSUME AiderIInv, NEW c \in Callers,
         \/ Aider!StartClient(c) \/ Aider!TimeOut(c) \/ Aider!ClientStarts(c)
         \/ Aider!ClientReports(c) \/ Aider!ClientFails(c)
  PROVE  AiderIInv'
<1> USE AiderConstants DEF AiderIInv, Aider!Goto, Aider!calls, Aider!Report
<1>1. CASE Aider!StartClient(c)
  <2>1. Aider!TypeOK'
    BY <1>1 DEF Aider!StartClient, Aider!TypeOK
  <2>2. Aider!AiderInv'
    <3>1. /\ pc[c] = "start" /\ client[c] = "off" /\ outcome[c] = "none"
          /\ request[c] = "none" /\ container.by # c /\ ended[c] = "never"
          /\ pc'[c] = "run" /\ client'[c] = "creating" /\ request'[c] = "create"
          /\ UNCHANGED <<outcome, evicting, force, container, ended>>
      BY <1>1 DEF Aider!StartClient, Aider!TypeOK, Aider!AiderInv
    <3>2. \A d \in Callers \ {c} :
            pc'[d] = pc[d] /\ client'[d] = client[d] /\ request'[d] = request[d]
      BY <1>1 DEF Aider!StartClient, Aider!TypeOK
    <3> QED BY <3>1, <3>2 DEF Aider!AiderInv
  <2> QED BY <2>1, <2>2
<1>2. CASE Aider!TimeOut(c)
  BY <1>2 DEF Aider!TimeOut, Aider!TypeOK, Aider!AiderInv
<1>3. CASE Aider!ClientStarts(c)
  BY <1>3 DEF Aider!ClientStarts, Aider!TypeOK, Aider!AiderInv
<1>4. CASE Aider!ClientReports(c)
  BY <1>4 DEF Aider!ClientReports, Aider!TypeOK, Aider!AiderInv
<1>5. CASE Aider!ClientFails(c)
  BY <1>5 DEF Aider!ClientFails, Aider!TypeOK, Aider!AiderInv
<1> QED BY <1>1, <1>2, <1>3, <1>4, <1>5

LEMMA DaemonMoves ==
  ASSUME AiderIInv, NEW c \in Callers,
         Aider!DaemonCreates(c) \/ Aider!DaemonStarts(c) \/ Aider!DaemonDrops(c)
  PROVE  AiderIInv'
<1> USE AiderConstants DEF AiderIInv, Aider!calls, Aider!Report, Aider!Absent
<1>1. CASE Aider!DaemonCreates(c)
  <2>1. Aider!TypeOK'
    BY <1>1 DEF Aider!DaemonCreates, Aider!TypeOK
  <2>2. Aider!AiderInv'
    BY <1>1 DEF Aider!DaemonCreates, Aider!TypeOK, Aider!AiderInv
  <2> QED BY <2>1, <2>2
<1>2. CASE Aider!DaemonStarts(c)
  <2>1. Aider!TypeOK'
    BY <1>2 DEF Aider!DaemonStarts, Aider!TypeOK
  <2>2. Aider!AiderInv'
    BY <1>2 DEF Aider!DaemonStarts, Aider!TypeOK, Aider!AiderInv
  <2> QED BY <2>1, <2>2
<1>3. CASE Aider!DaemonDrops(c)
  BY <1>3 DEF Aider!DaemonDrops, Aider!TypeOK, Aider!AiderInv
<1> QED BY <1>1, <1>2, <1>3

LEMMA WorkerInContainerExits ==
  ASSUME AiderIInv, NEW code \in {"zero", "nonzero"}, Aider!WorkerExits(code)
  PROVE  AiderIInv'
<1> USE AiderConstants DEF AiderIInv, Aider!calls, Aider!WorkerExits
<1>1. container.by \in Callers
  BY DEF Aider!TypeOK
<1>2. Aider!TypeOK'
  BY <1>1 DEF Aider!TypeOK
<1>3. Aider!AiderInv'
  BY <1>1 DEF Aider!TypeOK, Aider!AiderInv
<1> QED BY <1>2, <1>3

LEMMA AiderStep ==
  ASSUME AiderIInv, [Aider!Next]_(Aider!vars)
  PROVE  AiderIInv'
<1>1. CASE UNCHANGED Aider!vars
  BY <1>1 DEF AiderIInv, Aider!TypeOK, Aider!AiderInv, Aider!vars, Aider!calls
<1>2. CASE Aider!Next
  BY <1>2, CallMoves, ClientMoves, DaemonMoves, WorkerInContainerExits
     DEF Aider!Next, Aider!Run, Aider!Docker
<1> QED BY <1>1, <1>2

LEMMA AiderResult ==
  ASSUME AiderIInv
  PROVE  Aider!ResultMeansNothingRuns /\ Aider!CompletedRanToTheEnd
<1>1. Aider!ResultMeansNothingRuns
  BY DEF AiderIInv, Aider!AiderInv, Aider!ResultMeansNothingRuns
<1>2. Aider!CompletedRanToTheEnd
  BY DEF AiderIInv, Aider!TypeOK, Aider!AiderInv, Aider!CompletedRanToTheEnd, Aider!Status
<1> QED BY <1>1, <1>2

-----------------------------------------------------------------------------
(***************************************************************************)
(* The three kinds of children together.                                   *)
(***************************************************************************)

\* Whatever the three kinds of children do, and whatever limits, bounds and
\* callers there are: the result of a sandbox run accounts for its output and
\* its exit (lab_executor.py), the result of a worker for its log and its
\* status (lab_codex_worker.py), and no container of an Aider call that has
\* returned runs (lab_aider_worker.py).
THEOREM ChildrenResultsAreTrue ==
  ChildrenSpec => []ResultIsTrue
<1> DEFINE IInv == /\ part = "sandbox" => SandboxIInv
                   /\ part = "worker" => WorkerIInv
                   /\ part = "aider" => AiderIInv
<1>1. ChildrenInit => IInv
  BY SandboxInit, WorkerInit, AiderInit DEF ChildrenInit
<1>2. IInv /\ [ChildrenNext]_allVars => IInv'
  <2> SUFFICES ASSUME IInv, [ChildrenNext]_allVars
               PROVE  IInv'
    OBVIOUS
  <2>1. CASE UNCHANGED allVars
    <3>1. UNCHANGED <<part, vars, Worker!vars, Aider!vars>>
      BY <2>1 DEF allVars, vars, loop, sandbox, workerOnly, aiderOnly, Worker!vars,
         Worker!caller, Worker!thread, Worker!processes, Aider!vars, Aider!calls
    <3> QED BY <3>1, SandboxStep, WorkerStep, AiderStep
  <2>2. CASE InSandbox(Next)
    BY <2>2, SandboxStep DEF InSandbox
  <2>3. CASE InWorker(Worker!Next)
    BY <2>3, WorkerStep DEF InWorker
  <2>4. CASE InAider(Aider!Next)
    BY <2>4, AiderStep DEF InAider
  <2> QED BY <2>1, <2>2, <2>3, <2>4 DEF ChildrenNext
<1>3. IInv => ResultIsTrue
  BY SandboxResult, WorkerResult, AiderResult
     DEF ResultIsTrue, SandboxIInv, WorkerIInv, AiderIInv
<1> QED BY <1>1, <1>2, <1>3, PTL DEF ChildrenSpec


-----------------------------------------------------------------------------
(***************************************************************************)
(* The intake of a promotion (PromotionIntake).                            *)
(***************************************************************************)
IntakeIInv == Intake!TypeOK /\ Intake!IntakeInv /\ Intake!ProposalIsCommitted

LEMMA IntakeConstants ==
  /\ Intake!Absent \notin Contents /\ Intake!Unread \notin Contents
  /\ Intake!Absent # Intake!Unread
BY OutsideAssumption DEF Intake!IntakeAssumption, Intake!Absent, Intake!Unread

LEMMA IntakeScene ==
  ASSUME scene \in IntakeScenarios
  PROVE  /\ Intake!Order \in Seq(Destinations) /\ Len(Intake!Order) \in Nat \ {0}
         /\ DOMAIN Intake!Order = 1 .. Len(Intake!Order)
         /\ Intake!Paths = {Intake!Order[i] : i \in 1 .. Len(Intake!Order)}
         /\ \A i, j \in 1 .. Len(Intake!Order) :
               Intake!Order[i] = Intake!Order[j] => i = j
<1>1. /\ scene \in [order : Seq(Destinations), commits : Nat \ {0}, moves : Nat]
      /\ scene.order # <<>>
      /\ \A i, j \in DOMAIN scene.order : scene.order[i] = scene.order[j] => i = j
  BY OutsideAssumption DEF Intake!IntakeAssumption
<1> QED BY <1>1 DEF Intake!Order, Intake!Paths

\* The scenario, and with it the loop, is that of the whole behaviour.
LEMMA IntakeSceneStays ==
  ASSUME UNCHANGED scene
  PROVE  Intake!Order' = Intake!Order /\ Intake!Paths' = Intake!Paths
BY DEF Intake!Order, Intake!Paths

\* The path that the loop has come to.
LEMMA IntakePath ==
  ASSUME IntakeIInv
  PROVE  /\ at \in 1 .. Len(Intake!Order) /\ Len(Intake!Order) \in Nat \ {0}
         /\ Intake!Path = Intake!Order[at] /\ Intake!Path \in Intake!Paths
BY IntakeScene DEF IntakeIInv, Intake!IntakeInv, Intake!TypeOK, Intake!HistoryInv, Intake!Path

LEMMA IntakeStarts ==
  ASSUME Intake!Init
  PROVE  IntakeIInv
<1> USE IntakeConstants DEF Intake!Init, Intake!NoHead
<1>1. scene \in IntakeScenarios /\ 1 \in DOMAIN Intake!Order
  BY IntakeScene
<1>2. PICK tree \in [Intake!Paths -> Intake!States] :
        trees = <<tree>> /\ index = tree /\ work = tree
  OBVIOUS
<1>3. trees \in Seq([Intake!Paths -> Intake!States]) /\ commit \in DOMAIN trees
  BY <1>2
<1>4. \A p \in Intake!Paths : states[p] = Intake!Unread
  OBVIOUS
<1>5. ~Intake!Proposed /\ proposal.head = 0
      /\ proposal.before \in [Intake!Paths -> Intake!States \cup {Intake!Unread}]
      /\ DOMAIN proposal = {"branch", "head", "before"}
  BY DEF Intake!Proposed, Intake!NoProposal
<1>6. Intake!TypeOK
  BY <1>1, <1>2, <1>3, <1>5 DEF Intake!TypeOK
<1>7. Intake!HistoryInv
  BY <1>1, <1>3 DEF Intake!HistoryInv, Intake!Accepted
<1>8. Intake!BranchInv /\ Intake!PathInv /\ Intake!LoopInv
  BY DEF Intake!BranchInv, Intake!PathInv, Intake!LoopInv, Intake!Loop, Intake!Bracketed,
     Intake!Accepted
<1>9. Intake!CollectInv /\ Intake!ProposalIsCommitted
  BY <1>5 DEF Intake!CollectInv, Intake!ProposalIsCommitted
<1> QED BY <1>6, <1>7, <1>8, <1>9 DEF IntakeIInv, Intake!IntakeInv

\* What the repository's user leaves alone, and what the history remembers of
\* the rest.
UserDoes ==
  /\ UNCHANGED <<missed, pc, phase, first, second, at, tracked, content, states, proposal>>
  /\ commit' \in DOMAIN trees' /\ branch' \in Branches
  /\ index' \in [Intake!Paths -> Intake!States] /\ work' \in [Intake!Paths -> Intake!States]
  /\ trees' \in Seq([Intake!Paths -> Intake!States]) /\ DOMAIN trees \subseteq DOMAIN trees'
  /\ \A k \in DOMAIN trees : trees'[k] = trees[k]
  /\ away \subseteq away' /\ heads \subseteq heads'
  /\ \A p \in Intake!Paths \cap Intake!Watched : work'[p] = work[p] \/ p \in away'
  /\ "branch" \in Intake!Watched /\ Intake!Here \in heads =>
        /\ branch' = branch \/ "branch" \in away'
        /\ Intake!Here' \in heads'
  /\ changed' \in BOOLEAN
  /\ pc = "close" => changed' \/ (~changed /\ work'[Intake!Path] = work[Intake!Path])

LEMMA IntakeUserDoes ==
  ASSUME IntakeIInv, Intake!User, UNCHANGED scene
  PROVE  UserDoes
<1> USE IntakePath DEF UserDoes, Intake!intake, Intake!Change
<1>1. /\ commit \in DOMAIN trees /\ branch \in Branches /\ changed \in BOOLEAN
      /\ index \in [Intake!Paths -> Intake!States] /\ work \in [Intake!Paths -> Intake!States]
      /\ trees \in Seq([Intake!Paths -> Intake!States])
  BY DEF IntakeIInv, Intake!IntakeInv, Intake!TypeOK, Intake!HistoryInv, Intake!PathInv
<1>2. ASSUME NEW p \in Intake!Paths, NEW s \in Intake!States, Intake!Edit(p, s)
      PROVE  UserDoes
  BY <1>1, <1>2 DEF Intake!Edit, Intake!Here
<1>3. ASSUME NEW p \in Intake!Paths, NEW s \in Intake!States, Intake!Stage(p, s)
      PROVE  UserDoes
  BY <1>1, <1>3 DEF Intake!Stage, Intake!Here
<1>4. CASE Intake!Commit
  <2>1. /\ trees' \in Seq([Intake!Paths -> Intake!States]) /\ DOMAIN trees \subseteq DOMAIN trees'
        /\ \A k \in DOMAIN trees : trees'[k] = trees[k]
        /\ commit' \in DOMAIN trees'
    BY <1>1, <1>4 DEF Intake!Commit, Intake!MoveHead
  <2> QED BY <1>1, <1>4, <2>1 DEF Intake!Commit, Intake!MoveHead
<1>5. ASSUME NEW b1 \in Branches, NEW k \in DOMAIN trees, Intake!Switch(b1, k)
      PROVE  UserDoes
  BY <1>1, <1>5 DEF Intake!Switch, Intake!MoveHead
<1> QED BY <1>2, <1>3, <1>4, <1>5 DEF Intake!User

LEMMA IntakeUser ==
  ASSUME IntakeIInv, Intake!User, UNCHANGED scene
  PROVE  IntakeIInv'
<1> USE IntakeSceneStays, IntakeConstants DEF IntakeIInv, Intake!IntakeInv
<1>1. UserDoes /\ UNCHANGED <<missed, pc, phase, first, second, at, tracked, content,
                              states, proposal>>
  BY IntakeUserDoes DEF UserDoes
<1>2. /\ Intake!Path' = Intake!Path /\ Intake!Path \in Intake!Paths
      /\ Intake!Bracketed' = Intake!Bracketed /\ Intake!Accepted' = Intake!Accepted
      /\ \A p : Intake!Recorded(p)' = Intake!Recorded(p)
      /\ \A c, p : Intake!Deceived(c, p)' = Intake!Deceived(c, p)
      /\ Intake!Proposed' = Intake!Proposed
  BY <1>1, IntakePath DEF Intake!Path, Intake!Bracketed, Intake!Accepted, Intake!Recorded,
     Intake!Deceived, Intake!Proposed
<1>3. /\ trees' \in Seq([Intake!Paths -> Intake!States]) /\ DOMAIN trees \subseteq DOMAIN trees'
      /\ \A k \in DOMAIN trees : trees'[k] = trees[k]
      /\ first.head # 0 => first.head \in DOMAIN trees
      /\ proposal.head # 0 => proposal.head \in DOMAIN trees
  BY <1>1 DEF UserDoes, Intake!HistoryInv, Intake!CollectInv
<1>4. Intake!TypeOK'
  BY <1>1 DEF UserDoes, Intake!TypeOK
<1>5. Intake!HistoryInv'
  BY <1>1, <1>2, <1>3 DEF Intake!HistoryInv
<1>6. Intake!BranchInv'
  <2>1. CASE pc \in {"head1", "status1", "branch2"} \cup Intake!Loop
    <3>1. "branch" \in Intake!Watched
      BY <2>1 DEF Intake!Watched
    <3> QED BY <1>1, <1>2, <2>1, <3>1 DEF UserDoes, Intake!BranchInv, Intake!Loop, Intake!Accepted
  <2>2. CASE pc \notin {"head1", "status1", "branch2"} \cup Intake!Loop
    BY <1>1, <1>2, <2>2 DEF UserDoes, Intake!BranchInv
  <2> QED BY <2>1, <2>2
<1>7. Intake!PathInv'
  <2>1. /\ changed' \in BOOLEAN /\ tracked' \in BOOLEAN
        /\ pc' = "close" => content' \in Contents /\ (~changed' => content' = work'[Intake!Path'])
    BY <1>1, <1>2 DEF UserDoes, Intake!PathInv
  <2>2. ASSUME Intake!Bracketed, NEW p \in Intake!Paths, p \notin away'
        PROVE  Intake!AsRead(p)'
    <3>1. Intake!AsRead(p) /\ p \notin away
      BY <1>1, <2>2 DEF UserDoes, Intake!PathInv
    <3>2. PICK i \in 1 .. Len(Intake!Order) : p = Intake!Order[i]
      BY IntakeScene DEF Intake!HistoryInv
    <3>3. ASSUME pc \in Intake!Loop
          PROVE  Intake!Recorded(p) \/ (pc = "tracked" /\ p = Intake!Path) => p \in Intake!Watched
      <4>1. Intake!Recorded(p) => i < at
        BY <3>2, <3>3, IntakeScene DEF Intake!LoopInv, Intake!HistoryInv
      <4>2. i < at => p \in Intake!Watched
        BY <3>2, <3>3, IntakeScene DEF Intake!Watched, Intake!HistoryInv
      <4>3. pc = "tracked" /\ p = Intake!Path => p \in Intake!Watched
        BY <3>3, IntakePath, IntakeScene DEF Intake!Watched, Intake!HistoryInv
      <4> QED BY <4>1, <4>2, <4>3
    <3>4. ASSUME pc \in {"branch2", "head2", "status2"}
          PROVE  p \in Intake!Watched
      BY <3>4 DEF Intake!Watched, Intake!Loop
    <3>5. (Intake!Recorded(p) \/ (pc = "tracked" /\ p = Intake!Path)) => work'[p] = work[p]
      <4>1. (Intake!Recorded(p) \/ (pc = "tracked" /\ p = Intake!Path)) => p \in Intake!Watched
        BY <2>2, <3>3, <3>4 DEF Intake!Bracketed
      <4> QED BY <1>1, <2>2, <4>1 DEF UserDoes
    <3> QED BY <1>1, <1>2, <3>1, <3>5 DEF Intake!AsRead, Intake!Recorded
  <2>3. Intake!Accepted => \A p \in Intake!Paths :
          states[p] = trees'[first.head][p] \/ Intake!Deceived(phase, p)
    BY <1>3 DEF Intake!PathInv, Intake!HistoryInv, Intake!Accepted
  <2> QED BY <1>1, <1>2, <2>1, <2>2, <2>3 DEF Intake!PathInv
<1>8. Intake!LoopInv'
  BY <1>1, <1>2 DEF Intake!LoopInv
<1>9. Intake!CollectInv'
  BY <1>1, <1>2, <1>3 DEF Intake!CollectInv
<1>10. Intake!ProposalIsCommitted'
  <2>1. Intake!Proposed => Intake!Before' = Intake!Before
    BY <1>1, <1>3 DEF Intake!Proposed, Intake!Before
  <2> QED BY <1>1, <1>2, <2>1 DEF Intake!ProposalIsCommitted
<1> QED BY <1>4, <1>5, <1>6, <1>7, <1>8, <1>9, <1>10

\* The two snapshots: a command reads what is there.
LEMMA IntakeSnapshots ==
  ASSUME IntakeIInv, UNCHANGED scene,
         \/ Intake!ReadBranch("branch1", "head1") \/ Intake!ReadHead("head1", "status1")
         \/ Intake!ReadBranch("branch2", "head2") \/ Intake!ReadHead("head2", "status2")
  PROVE  IntakeIInv'
<1> USE IntakeSceneStays
    DEF IntakeIInv, Intake!IntakeInv, Intake!ReadBranch, Intake!ReadHead
<1>1. /\ UNCHANGED <<source, trees, commit, branch, index, work, away, phase, at,
                     tracked, content, changed, states, proposal>>
      /\ pc \in {"branch1", "head1", "branch2", "head2"}
      /\ pc' = (CASE pc = "branch1" -> "head1" [] pc = "head1" -> "status1"
                  [] pc = "branch2" -> "head2" [] OTHER -> "status2")
      /\ pc # "branch1" => heads' = heads
      /\ pc # "branch2" => missed' = missed
      /\ pc \in {"branch2", "head2"} => first' = first
  BY DEF Intake!repository, Intake!reading, Intake!history
<1>2. /\ Intake!Path' = Intake!Path /\ Intake!Proposed' = Intake!Proposed
      /\ Intake!Here' = Intake!Here /\ ~Intake!Accepted /\ ~Intake!Accepted'
      /\ Intake!Bracketed' = Intake!Bracketed
      /\ Intake!Here \in [branch : Branches, head : DOMAIN trees] /\ 0 \notin DOMAIN trees
  BY <1>1 DEF Intake!Path, Intake!Proposed, Intake!Here, Intake!Accepted, Intake!Bracketed,
     Intake!Loop, Intake!TypeOK, Intake!HistoryInv
<1>3. /\ missed' \in [{"inspect", "collect"} -> SUBSET ({"branch", "commit"} \cup Intake!Paths)]
      /\ \A c \in {"inspect", "collect"} : missed[c] \subseteq missed'[c]
      /\ pc = "branch2" /\ branch = first.branch /\ "branch" \notin missed'[phase] =>
            "branch" \notin away
  <2>1. CASE pc = "branch2"
    BY <1>1, <2>1 DEF Intake!Miss, Intake!TypeOK
  <2>2. CASE pc # "branch2"
    BY <1>1, <2>2 DEF Intake!TypeOK
  <2> QED BY <2>1, <2>2
<1>4. Intake!TypeOK'
  BY <1>1, <1>3 DEF Intake!TypeOK
<1>5. Intake!HistoryInv'
  <2>1. /\ first' \in [branch : Branches \cup {"none"}, head : {0} \cup DOMAIN trees]
        /\ second' \in [branch : Branches \cup {"none"}, head : {0} \cup DOMAIN trees]
    BY <1>1, <1>2 DEF Intake!HistoryInv, Intake!Here
  <2>2. pc' \notin {"branch1", "head1"} => first'.head # 0
    BY <1>1, <1>2 DEF Intake!HistoryInv, Intake!Here
  <2> QED BY <1>1, <1>2, <2>1, <2>2 DEF Intake!HistoryInv
<1>6. Intake!BranchInv'
  <2> USE DEF Intake!BranchInv, Intake!HistoryInv, Intake!Here, Intake!Loop
  <2>1. CASE Intake!ReadBranch("branch1", "head1")
    BY <1>1, <1>2, <2>1
  <2>2. CASE Intake!ReadHead("head1", "status1")
    <3>1. "branch" \notin away => first' = Intake!Here
      BY <1>1, <1>2, <2>2
    <3> QED BY <1>1, <1>2, <2>2, <3>1
  <2>3. CASE Intake!ReadBranch("branch2", "head2")
    BY <1>1, <1>2, <1>3, <2>3
  <2>4. CASE Intake!ReadHead("head2", "status2")
    BY <1>1, <1>2, <2>4
  <2> QED BY <2>1, <2>2, <2>3, <2>4
<1>7. Intake!PathInv'
  BY <1>1, <1>2 DEF Intake!PathInv, Intake!AsRead, Intake!Recorded
<1>8. Intake!LoopInv'
  BY <1>1, <1>2 DEF Intake!LoopInv, Intake!Recorded, Intake!Loop
<1>9. Intake!CollectInv'
  <2>1. CASE pc \in {"branch1", "head1"}
    BY <1>1, <1>2, <2>1 DEF Intake!CollectInv, Intake!Bracketed, Intake!Loop
  <2>2. CASE pc \in {"branch2", "head2"}
    BY <1>1, <1>2, <2>2 DEF Intake!CollectInv, Intake!Recorded
  <2> QED BY <1>1, <2>1, <2>2
<1>10. Intake!ProposalIsCommitted'
  BY <1>1, <1>2, <1>3 DEF Intake!ProposalIsCommitted, Intake!Before, Intake!Deceived
<1> QED BY <1>4, <1>5, <1>6, <1>7, <1>8, <1>9, <1>10

\* The first status opens the loop.
LEMMA IntakeOpens ==
  ASSUME IntakeIInv, UNCHANGED scene, Intake!FirstStatus
  PROVE  IntakeIInv'
<1> USE IntakeSceneStays DEF IntakeIInv, Intake!IntakeInv, Intake!FirstStatus
<1>1. /\ UNCHANGED <<source, trees, commit, branch, index, work, heads, away, missed, phase,
                     first, second, tracked, content, changed, proposal>>
      /\ pc = "status1" /\ pc' \in {"stat", "raised"} /\ at' = 1
      /\ states' = [p \in Intake!Paths |-> Intake!Unread]
      /\ pc' = "stat" => Intake!AsProposed(first)
  BY DEF Intake!repository, Intake!history
<1>2. /\ Intake!Proposed' = Intake!Proposed /\ ~Intake!Accepted /\ ~Intake!Accepted'
      /\ Intake!Here' = Intake!Here /\ pc' \in {"stat", "raised"}
      /\ \A p \in Intake!Paths : ~Intake!Recorded(p)'
  BY <1>1 DEF Intake!Proposed, Intake!Accepted, Intake!Here, Intake!Recorded
<1>3. Intake!TypeOK'
  <2>1. 1 \in DOMAIN Intake!Order
    BY IntakeScene DEF Intake!HistoryInv
  <2> QED BY <1>1, <2>1 DEF Intake!TypeOK
<1>4. Intake!HistoryInv'
  BY <1>1, <1>2 DEF Intake!HistoryInv
<1>5. Intake!BranchInv'
  BY <1>1, <1>2 DEF Intake!BranchInv, Intake!Loop
<1>6. Intake!PathInv'
  BY <1>1, <1>2 DEF Intake!PathInv, Intake!AsRead
<1>7. Intake!LoopInv'
  <2>1. \A i \in DOMAIN Intake!Order : Intake!Order[i] \in Intake!Paths /\ ~(i < 1)
    BY IntakeScene DEF Intake!HistoryInv
  <2> QED BY <1>1, <1>2, <2>1 DEF Intake!LoopInv, Intake!Loop
<1>8. Intake!CollectInv'
  <2>1. ASSUME phase = "collect", pc' = "stat"
        PROVE  first = [branch |-> proposal.branch, head |-> proposal.head]
    BY <1>1, <2>1 DEF Intake!AsProposed
  <2>2. Intake!Bracketed' => pc' = "stat"
    BY <1>1 DEF Intake!Bracketed, Intake!Loop
  <2>3. \A p \in Intake!Paths' : ~Intake!Recorded(p)'
    BY <1>2
  <2> QED BY <1>1, <1>2, <2>1, <2>2, <2>3 DEF Intake!CollectInv
<1>9. Intake!ProposalIsCommitted'
  BY <1>1, <1>2 DEF Intake!ProposalIsCommitted, Intake!Before, Intake!Deceived
<1> QED BY <1>3, <1>4, <1>5, <1>6, <1>7, <1>8, <1>9

\* The second status closes the bracket: what is clean is what the commit holds.
LEMMA IntakeCloses ==
  ASSUME IntakeIInv, UNCHANGED scene, Intake!SecondStatus
  PROVE  IntakeIInv'
<1> USE IntakeSceneStays DEF IntakeIInv, Intake!IntakeInv, Intake!SecondStatus
<1>1. /\ UNCHANGED <<source, trees, commit, branch, index, work, heads, phase, at,
                     first, second, tracked, content, changed, states, proposal>>
      /\ pc = "status2" /\ pc' \in {"return", "raised"}
      /\ pc' = "return" => Intake!Clean /\ second = first
      /\ missed' = [missed EXCEPT ![phase] = @ \cup Intake!Overtaken]
  BY DEF Intake!repository, Intake!reading, Intake!Miss
<1>2. /\ Intake!Proposed' = Intake!Proposed /\ ~Intake!Accepted
      /\ ~Intake!Bracketed' /\ Intake!Bracketed /\ pc \notin Intake!Loop /\ pc' \notin Intake!Loop
      /\ Intake!Accepted' <=> pc' = "return"
      /\ \A p \in Intake!Paths : Intake!Recorded(p)' = Intake!Recorded(p)
  BY <1>1 DEF Intake!Proposed, Intake!Accepted, Intake!Bracketed, Intake!Loop, Intake!Recorded
<1>3. /\ missed' \in [{"inspect", "collect"} -> SUBSET ({"branch", "commit"} \cup Intake!Paths)]
      /\ \A c \in {"inspect", "collect"} : missed[c] \subseteq missed'[c]
      /\ Intake!Overtaken \subseteq missed'[phase] /\ phase \in {"inspect", "collect"}
  BY <1>1 DEF Intake!Overtaken, Intake!TypeOK
<1>4. Intake!TypeOK'
  BY <1>1, <1>3 DEF Intake!TypeOK
<1>5. Intake!HistoryInv'
  BY <1>1, <1>2 DEF Intake!HistoryInv
<1>6. Intake!BranchInv'
  BY <1>1, <1>2, <1>3 DEF Intake!BranchInv, Intake!Loop
<1>7. Intake!PathInv'
  <2>1. ASSUME pc' = "return", NEW p \in Intake!Paths
        PROVE  states[p] = trees[first.head][p] \/ Intake!Deceived(phase, p)'
    <3>1. CASE commit # second.head
      BY <1>3, <3>1 DEF Intake!Overtaken, Intake!Deceived
    <3>2. CASE commit = second.head
      <4>1. work[p] = trees[second.head][p] /\ second = first
        BY <1>1, <2>1, <3>2 DEF Intake!Clean
      <4>2. CASE p \in away
        <5>1. p \in missed'[phase]
          BY <1>3, <4>1, <4>2 DEF Intake!Overtaken
        <5> QED BY <5>1 DEF Intake!Deceived
      <4>3. CASE p \notin away
        BY <1>1, <1>2, <4>1, <4>3 DEF Intake!PathInv, Intake!AsRead, Intake!LoopInv
      <4> QED BY <4>2, <4>3
    <3> QED BY <3>1, <3>2
  <2> QED BY <1>1, <1>2, <2>1 DEF Intake!PathInv, Intake!Deceived
<1>8. Intake!LoopInv'
  BY <1>1, <1>2 DEF Intake!LoopInv
<1>9. Intake!CollectInv'
  BY <1>1, <1>2 DEF Intake!CollectInv
<1>10. Intake!ProposalIsCommitted'
  BY <1>1, <1>2, <1>3 DEF Intake!ProposalIsCommitted, Intake!Before, Intake!Deceived
<1> QED BY <1>4, <1>5, <1>6, <1>7, <1>8, <1>9, <1>10

\* A step of the loop that records nothing yet.
LEMMA IntakeLooks ==
  ASSUME IntakeIInv, UNCHANGED scene,
         \/ Intake!Stat \/ Intake!Open
         \/ Intake!AskTracked /\ ~(content = Intake!Absent /\ Intake!MayBeAbsent(tracked'))
         \/ Intake!Close /\ ~(~changed /\ Intake!Expected)
  PROVE  IntakeIInv'
<1> USE IntakeSceneStays, IntakeConstants DEF IntakeIInv, Intake!IntakeInv
<1>1. /\ UNCHANGED <<source, trees, commit, branch, index, work, heads, away, missed, phase,
                     first, second, at, states, proposal>>
      /\ pc \in {"stat", "tracked", "open", "close"}
      /\ pc' \in {"tracked", "open", "close", "raised"}
      /\ pc' = "tracked" => (content' = Intake!Absent => work[Intake!Path] = Intake!Absent)
      /\ pc' = "close" => content' = work[Intake!Path] /\ content' # Intake!Absent
      /\ tracked' = tracked \/ tracked' \in BOOLEAN
      /\ changed' = changed \/ changed' \in BOOLEAN
  BY DEF Intake!repository, Intake!history, Intake!Stat, Intake!Open, Intake!AskTracked,
     Intake!Close, Intake!Stop
<1>2. /\ Intake!Path' = Intake!Path /\ Intake!Path \in Intake!Paths
      /\ Intake!Proposed' = Intake!Proposed /\ Intake!Here' = Intake!Here
      /\ ~Intake!Accepted /\ ~Intake!Accepted' /\ Intake!Bracketed
      /\ \A p : Intake!Recorded(p)' = Intake!Recorded(p)
  BY <1>1, IntakePath DEF Intake!Path, Intake!Proposed, Intake!Here, Intake!Accepted,
     Intake!Bracketed, Intake!Loop, Intake!Recorded
<1>3. Intake!TypeOK'
  BY <1>1 DEF Intake!TypeOK
<1>4. Intake!HistoryInv'
  BY <1>1, <1>2 DEF Intake!HistoryInv
<1>5. Intake!BranchInv'
  BY <1>1, <1>2 DEF Intake!BranchInv, Intake!Loop
<1>6. Intake!PathInv'
  <2>1. work[Intake!Path] \in Intake!States
    BY <1>2 DEF Intake!TypeOK
  <2> QED BY <1>1, <1>2, <2>1 DEF Intake!PathInv, Intake!AsRead, Intake!States, Intake!Recorded
<1>7. Intake!LoopInv'
  BY <1>1, <1>2 DEF Intake!LoopInv, Intake!Recorded, Intake!Loop
<1>8. Intake!CollectInv'
  BY <1>1, <1>2 DEF Intake!CollectInv, Intake!Recorded
<1>9. Intake!ProposalIsCommitted'
  BY <1>1, <1>2 DEF Intake!ProposalIsCommitted, Intake!Before, Intake!Deceived
<1> QED BY <1>3, <1>4, <1>5, <1>6, <1>7, <1>8, <1>9

\* A step of the loop that records a state: what the path holds, if it has not
\* changed since the loop came to it, and what the proposal says of it.
LEMMA IntakeRecords ==
  ASSUME IntakeIInv, UNCHANGED scene,
         NEW s \in Intake!States, Intake!Record(s), pc \in {"tracked", "close"},
         UNCHANGED <<source, trees, commit, branch, index, work, heads, away, missed, phase,
                     first, second, content, changed, proposal>>,
         tracked' \in BOOLEAN,
         Intake!Path \notin away => s = work[Intake!Path],
         phase = "collect" => s = proposal.before[Intake!Path]
  PROVE  IntakeIInv'
<1> USE IntakeSceneStays, IntakeConstants DEF IntakeIInv, Intake!IntakeInv
<1>1. /\ at \in 1 .. Len(Intake!Order) /\ Len(Intake!Order) \in Nat \ {0}
      /\ DOMAIN Intake!Order = 1 .. Len(Intake!Order)
      /\ Intake!Path \in Intake!Paths /\ Intake!Path = Intake!Order[at]
      /\ Intake!Paths = {Intake!Order[i] : i \in 1 .. Len(Intake!Order)}
      /\ \A i, j \in 1 .. Len(Intake!Order) : Intake!Order[i] = Intake!Order[j] => i = j
  BY IntakePath, IntakeScene DEF Intake!HistoryInv
<1>2. /\ s # Intake!Unread
      /\ states' = [states EXCEPT ![Intake!Path] = s]
      /\ states \in [Intake!Paths -> Intake!States \cup {Intake!Unread}]
  BY DEF Intake!Record, Intake!States, Intake!TypeOK
<1>3. \/ pc' = "stat" /\ at' = at + 1 /\ at # Len(Intake!Order)
      \/ pc' = "branch2" /\ at' = at /\ at = Len(Intake!Order)
  BY DEF Intake!Record
<1>4. /\ Intake!Proposed' = Intake!Proposed /\ Intake!Here' = Intake!Here
      /\ ~Intake!Accepted /\ ~Intake!Accepted' /\ Intake!Bracketed /\ pc \in Intake!Loop
      /\ states'[Intake!Path] = s
      /\ \A p \in Intake!Paths \ {Intake!Path} : states'[p] = states[p]
  <2>1. /\ states'[Intake!Path] = s
        /\ \A p \in Intake!Paths \ {Intake!Path} : states'[p] = states[p]
    BY <1>1, <1>2
  <2>2. ~Intake!Accepted /\ ~Intake!Accepted' /\ Intake!Bracketed /\ pc \in Intake!Loop
    BY <1>3 DEF Intake!Accepted, Intake!Bracketed, Intake!Loop
  <2> QED BY <2>1, <2>2 DEF Intake!Proposed, Intake!Here
<1>5. \A i \in 1 .. Len(Intake!Order) : i < at + 1 <=> states'[Intake!Order[i]] # Intake!Unread
  <2>1. \A i \in 1 .. Len(Intake!Order) : i < at <=> states[Intake!Order[i]] # Intake!Unread
    BY <1>1, <1>4 DEF Intake!LoopInv, Intake!Recorded
  <2> QED BY <1>1, <1>2, <2>1
<1>6. Intake!TypeOK'
  <2>1. at' \in DOMAIN Intake!Order'
    BY <1>1, <1>3
  <2>2. states' \in [Intake!Paths' -> Intake!States \cup {Intake!Unread}]
    BY <1>1, <1>2
  <2> QED BY <1>3, <2>1, <2>2 DEF Intake!TypeOK
<1>7. Intake!HistoryInv'
  BY <1>3, <1>4 DEF Intake!HistoryInv
<1>8. Intake!BranchInv'
  BY <1>3, <1>4 DEF Intake!BranchInv, Intake!Loop
<1>9. Intake!PathInv'
  <2>1. ASSUME NEW p \in Intake!Paths, p \notin away
        PROVE  Intake!Recorded(p)' => states'[p] = work[p]
    BY <1>1, <1>2, <1>4, <2>1 DEF Intake!PathInv, Intake!AsRead, Intake!Recorded
  <2> QED BY <1>3, <1>4, <2>1 DEF Intake!PathInv, Intake!AsRead
<1>10. Intake!LoopInv'
  <2>1. CASE pc' = "stat"
    <3>1. (\A i \in DOMAIN Intake!Order : i < at <=> Intake!Recorded(Intake!Order[i]))'
      BY <1>1, <1>3, <1>5, <2>1 DEF Intake!Recorded
    <3> QED BY <1>4, <2>1, <3>1 DEF Intake!LoopInv
  <2>2. CASE pc' = "branch2"
    BY <1>1, <1>3, <1>4, <1>5, <2>2 DEF Intake!LoopInv, Intake!Recorded, Intake!Loop
  <2> QED BY <1>3, <2>1, <2>2
<1>11. Intake!CollectInv'
  <2>1. phase = "collect" => \A p \in Intake!Paths :
          Intake!Recorded(p)' => states'[p] = proposal.before[p]
    BY <1>2, <1>4 DEF Intake!CollectInv, Intake!Recorded
  <2> QED BY <1>3, <1>4, <2>1 DEF Intake!CollectInv
<1>12. Intake!ProposalIsCommitted'
  BY <1>4 DEF Intake!ProposalIsCommitted, Intake!Before, Intake!Deceived
<1> QED BY <1>6, <1>7, <1>8, <1>9, <1>10, <1>11, <1>12

LEMMA IntakeDecides ==
  ASSUME IntakeIInv, UNCHANGED scene,
         \/ Intake!AskTracked /\ content = Intake!Absent /\ Intake!MayBeAbsent(tracked')
         \/ Intake!Close /\ ~changed /\ Intake!Expected
  PROVE  IntakeIInv'
<1> USE IntakePath DEF IntakeIInv, Intake!IntakeInv
<1>1. CASE Intake!AskTracked /\ content = Intake!Absent /\ Intake!MayBeAbsent(tracked')
  <2>1. Intake!Record(Intake!Absent) /\ pc = "tracked" /\ tracked' \in BOOLEAN
    BY <1>1 DEF Intake!AskTracked
  <2>2. UNCHANGED <<source, trees, commit, branch, index, work, heads, away, missed, phase,
                    first, second, content, changed, proposal>>
    BY <1>1 DEF Intake!AskTracked, Intake!repository, Intake!history
  <2>3. Intake!Path \notin away => Intake!Absent = work[Intake!Path]
    BY <1>1, <2>1 DEF Intake!PathInv, Intake!Bracketed, Intake!Loop, Intake!AsRead
  <2>4. phase = "collect" => Intake!Absent = proposal.before[Intake!Path]
    BY <1>1 DEF Intake!MayBeAbsent
  <2> QED BY <2>1, <2>2, <2>3, <2>4, IntakeRecords DEF Intake!States
<1>2. CASE Intake!Close /\ ~changed /\ Intake!Expected
  <2>1. Intake!Record(content) /\ pc = "close" /\ tracked' \in BOOLEAN
    BY <1>2 DEF Intake!Close, Intake!PathInv
  <2>2. UNCHANGED <<source, trees, commit, branch, index, work, heads, away, missed, phase,
                    first, second, content, changed, proposal>>
    BY <1>2 DEF Intake!Close, Intake!repository, Intake!history
  <2>3. content \in Intake!States /\ content = work[Intake!Path]
    BY <1>2, <2>1 DEF Intake!PathInv, Intake!States
  <2>4. phase = "collect" => content = proposal.before[Intake!Path]
    BY <1>2 DEF Intake!Expected
  <2> QED BY <2>1, <2>2, <2>3, <2>4, IntakeRecords
<1> QED BY <1>1, <1>2

\* The answer of a call, and the human's.
LEMMA IntakeAnswers ==
  ASSUME IntakeIInv, UNCHANGED scene, Intake!Return \/ Intake!Approve
  PROVE  IntakeIInv'
<1> USE IntakeSceneStays DEF IntakeIInv, Intake!IntakeInv
<1>1. /\ UNCHANGED <<source, trees, commit, branch, index, work, heads, away, missed, at,
                     tracked, content, changed, states>>
      /\ pc \in {"return", "proposed"} /\ Intake!Accepted /\ pc \notin Intake!Loop
      /\ ~Intake!Bracketed /\ 0 \notin DOMAIN trees
      /\ \A p \in Intake!Paths : Intake!Recorded(p)' = Intake!Recorded(p)
  BY DEF Intake!Return, Intake!Approve, Intake!repository, Intake!reading, Intake!history,
     Intake!Accepted, Intake!Bracketed, Intake!Loop, Intake!Recorded, Intake!HistoryInv
<1>2. CASE Intake!Return /\ phase = "inspect"
  <2>1. /\ pc = "return" /\ pc' = "proposed" /\ UNCHANGED <<phase, first, second>>
        /\ proposal' = [branch |-> first.branch, head |-> first.head, before |-> states]
        /\ first.head \in DOMAIN trees /\ phase = "inspect"
        /\ first = [branch |-> first.branch, head |-> first.head]
    BY <1>1, <1>2 DEF Intake!Return, Intake!HistoryInv
  <2>2. Intake!Proposed' /\ Intake!Accepted' /\ ~Intake!Bracketed' /\ pc' \notin Intake!Loop
    BY <1>1, <2>1 DEF Intake!Proposed, Intake!Accepted, Intake!Bracketed, Intake!Loop
  <2>3. Intake!TypeOK' /\ Intake!HistoryInv'
    <3>1. Intake!TypeOK'
      BY <1>1, <2>1 DEF Intake!TypeOK
    <3>2. Intake!HistoryInv'
      BY <1>1, <2>1 DEF Intake!HistoryInv
    <3> QED BY <3>1, <3>2
  <2>4. Intake!BranchInv'
    BY <1>1, <2>1, <2>2 DEF Intake!BranchInv
  <2>5. Intake!PathInv' /\ Intake!LoopInv'
    BY <1>1, <2>1, <2>2 DEF Intake!PathInv, Intake!LoopInv, Intake!Deceived
  <2>6. Intake!CollectInv'
    BY <1>1, <2>1, <2>2 DEF Intake!CollectInv
  <2>7. Intake!ProposalIsCommitted'
    BY <1>1, <2>1 DEF Intake!ProposalIsCommitted, Intake!PathInv, Intake!Before, Intake!Deceived
  <2> QED BY <2>3, <2>4, <2>5, <2>6, <2>7
<1>3. CASE Intake!Return /\ phase # "inspect"
  <2>1. /\ pc = "return" /\ pc' = "collected" /\ phase = "collect"
        /\ UNCHANGED <<phase, first, second, proposal>>
    BY <1>3 DEF Intake!Return, Intake!TypeOK
  <2>2. /\ Intake!Proposed' = Intake!Proposed /\ Intake!Accepted' /\ ~Intake!Bracketed'
        /\ pc' \notin Intake!Loop
    BY <1>1, <2>1 DEF Intake!Proposed, Intake!Accepted, Intake!Bracketed, Intake!Loop
  <2>3. Intake!TypeOK' /\ Intake!HistoryInv'
    <3>1. Intake!TypeOK'
      BY <1>1, <2>1 DEF Intake!TypeOK
    <3>2. Intake!HistoryInv'
      BY <1>1, <2>1 DEF Intake!HistoryInv
    <3> QED BY <3>1, <3>2
  <2>4. Intake!BranchInv'
    BY <1>1, <2>1, <2>2 DEF Intake!BranchInv
  <2>5. Intake!PathInv' /\ Intake!LoopInv'
    BY <1>1, <2>1, <2>2 DEF Intake!PathInv, Intake!LoopInv, Intake!Deceived
  <2>6. Intake!CollectInv'
    BY <1>1, <2>1, <2>2 DEF Intake!CollectInv
  <2>7. Intake!ProposalIsCommitted'
    BY <1>1, <2>1, <2>2 DEF Intake!ProposalIsCommitted, Intake!Before, Intake!Deceived
  <2> QED BY <2>3, <2>4, <2>5, <2>6, <2>7
<1>4. CASE Intake!Approve
  <2>1. /\ pc = "proposed" /\ pc' = "branch1" /\ phase' = "collect" /\ UNCHANGED proposal
        /\ first' = [branch |-> "none", head |-> 0] /\ second' = [branch |-> "none", head |-> 0]
        /\ Intake!Proposed
    BY <1>4 DEF Intake!Approve, Intake!NoHead, Intake!CollectInv
  <2>2. /\ Intake!Proposed' = Intake!Proposed /\ ~Intake!Accepted' /\ ~Intake!Bracketed'
        /\ pc' \notin Intake!Loop
    BY <1>1, <2>1 DEF Intake!Proposed, Intake!Accepted, Intake!Bracketed, Intake!Loop
  <2>3. Intake!TypeOK' /\ Intake!HistoryInv'
    <3>1. Intake!TypeOK'
      BY <1>1, <2>1 DEF Intake!TypeOK
    <3>2. Intake!HistoryInv'
      BY <1>1, <2>1, <2>2 DEF Intake!HistoryInv
    <3> QED BY <3>1, <3>2
  <2>4. Intake!BranchInv'
    BY <1>1, <2>1, <2>2 DEF Intake!BranchInv
  <2>5. Intake!PathInv' /\ Intake!LoopInv'
    BY <1>1, <2>1, <2>2 DEF Intake!PathInv, Intake!LoopInv
  <2>6. Intake!CollectInv'
    BY <1>1, <2>1, <2>2 DEF Intake!CollectInv
  <2>7. Intake!ProposalIsCommitted'
    BY <1>1, <2>1, <2>2 DEF Intake!ProposalIsCommitted, Intake!Before, Intake!Deceived
  <2> QED BY <2>3, <2>4, <2>5, <2>6, <2>7
<1> QED BY <1>2, <1>3, <1>4

LEMMA IntakeStep ==
  ASSUME IntakeIInv, [Intake!Next]_(Intake!vars)
  PROVE  IntakeIInv'
<1>1. CASE UNCHANGED Intake!vars
  <2>1. UNCHANGED <<scene, source, trees, commit, branch, index, work, heads, away, missed, pc,
                    phase, first, second, at, tracked, content, changed, states, proposal>>
    BY <1>1 DEF Intake!vars, Intake!repository, Intake!history, Intake!reading
  <2>2. /\ Intake!Path' = Intake!Path /\ Intake!Here' = Intake!Here
        /\ Intake!Bracketed' = Intake!Bracketed /\ Intake!Accepted' = Intake!Accepted
        /\ Intake!Proposed' = Intake!Proposed /\ Intake!Before' = Intake!Before
    BY <2>1, IntakeSceneStays DEF Intake!Path, Intake!Here, Intake!Bracketed, Intake!Accepted,
       Intake!Loop, Intake!Proposed, Intake!Before
  <2>3. Intake!TypeOK' = Intake!TypeOK /\ Intake!HistoryInv' = Intake!HistoryInv
    BY <2>1, <2>2, IntakeSceneStays DEF Intake!TypeOK, Intake!HistoryInv
  <2>4. Intake!BranchInv' = Intake!BranchInv /\ Intake!PathInv' = Intake!PathInv
    BY <2>1, <2>2, IntakeSceneStays DEF Intake!BranchInv, Intake!PathInv, Intake!AsRead,
       Intake!Recorded, Intake!Deceived
  <2>5. Intake!LoopInv' = Intake!LoopInv /\ Intake!CollectInv' = Intake!CollectInv
    BY <2>1, <2>2, IntakeSceneStays DEF Intake!LoopInv, Intake!CollectInv, Intake!Recorded
  <2>6. Intake!ProposalIsCommitted' = Intake!ProposalIsCommitted
    BY <2>1, <2>2, IntakeSceneStays DEF Intake!ProposalIsCommitted, Intake!Deceived
  <2> QED BY <2>3, <2>4, <2>5, <2>6 DEF IntakeIInv, Intake!IntakeInv
<1>2. CASE Intake!Next
  BY <1>2, IntakeSnapshots, IntakeOpens, IntakeCloses, IntakeLooks, IntakeDecides,
     IntakeAnswers, IntakeUser DEF Intake!Next, Intake!Intake
<1> QED BY <1>1, <1>2

\* A proposal that was collected is wrong of a path only if both calls were
\* deceived: each has held what it recorded against the same commit.
LEMMA IntakeResult ==
  ASSUME IntakeIInv
  PROVE  Intake!HeadIsAMoment /\ Intake!CollectedIsCommitted
<1> USE DEF IntakeIInv, Intake!IntakeInv
<1>1. pc \in {"proposed", "collected"} =>
        /\ first = [branch |-> proposal.branch, head |-> proposal.head] /\ Intake!Proposed
        /\ Intake!Accepted /\ second = first
  BY DEF Intake!CollectInv, Intake!Accepted, Intake!HistoryInv
<1>2. Intake!HeadIsAMoment
  BY <1>1 DEF Intake!HeadIsAMoment, Intake!BranchInv
<1>3. ASSUME pc = "collected"
      PROVE  states = proposal.before
  <2>1. \A p \in Intake!Paths : states[p] = proposal.before[p]
    BY <1>1, <1>3 DEF Intake!CollectInv, Intake!LoopInv
  <2> QED BY <2>1 DEF Intake!TypeOK
<1>4. ASSUME pc = "collected", NEW p \in Intake!Paths
      PROVE  \/ states[p] = Intake!Before[p]
             \/ Intake!Deceived("inspect", p) /\ Intake!Deceived("collect", p)
  <2>1. first.head = proposal.head /\ phase = "collect"
    BY <1>1, <1>4 DEF Intake!CollectInv
  <2>2. states[p] = Intake!Before[p] \/ Intake!Deceived("collect", p)
    BY <1>1, <1>4, <2>1 DEF Intake!PathInv, Intake!Before
  <2>3. states[p] = Intake!Before[p] \/ Intake!Deceived("inspect", p)
    BY <1>1, <1>3, <1>4 DEF Intake!ProposalIsCommitted
  <2> QED BY <2>2, <2>3
<1> QED BY <1>2, <1>3, <1>4 DEF Intake!CollectedIsCommitted

-----------------------------------------------------------------------------
(***************************************************************************)
(* The seeding of workspaces (WorkspaceSeed).                              *)
(***************************************************************************)
SeedIInv ==
  Seed!TypeOK /\ Seed!SeedInv /\ Seed!SeedIsAMoment /\ Seed!SeedIsTheCommit

LEMMA SeedConstants ==
  Seed!Nobody \notin Callers /\ MaxEdits \in Nat \ {0}
BY OutsideAssumption DEF Seed!SeedAssumption

LEMMA SeedScene ==
  ASSUME scene \in SeedScenarios
  PROVE  /\ Len(Seed!Order) \in Nat \ {0} /\ DOMAIN Seed!Order = 1 .. Len(Seed!Order)
         /\ Seed!Paths = {Seed!Order[i] : i \in 1 .. Len(Seed!Order)}
         /\ \A i, j \in 1 .. Len(Seed!Order) : Seed!Order[i] = Seed!Order[j] => i = j
         /\ Seed!Session \in [Callers -> Sessions] /\ Seed!FromCommit \subseteq Callers
         /\ \A c \in Seed!FromCommit : Seed!CommitOf[c] \in Nat \ {0}
<1>1. /\ scene.order \in Seq(Destinations) \ {<<>>} /\ scene.commits \in Nat
      /\ \A i, j \in DOMAIN scene.order : scene.order[i] = scene.order[j] => i = j
      /\ scene.session \in [Callers -> Sessions] /\ DOMAIN scene.commitOf \subseteq Callers
      /\ scene.commitOf \in [DOMAIN scene.commitOf -> 1 .. scene.commits]
  BY OutsideAssumption DEF Seed!SeedAssumption
<1> QED
  BY <1>1 DEF Seed!Order, Seed!Paths, Seed!Session, Seed!FromCommit, Seed!CommitOf

LEMMA SeedSceneStays ==
  ASSUME UNCHANGED scene
  PROVE  /\ Seed!Order' = Seed!Order /\ Seed!Paths' = Seed!Paths
         /\ Seed!Session' = Seed!Session /\ Seed!CommitOf' = Seed!CommitOf
         /\ Seed!FromCommit' = Seed!FromCommit
         /\ Seed!ExpectedAbsent' = Seed!ExpectedAbsent
         /\ Seed!NoFiles' = Seed!NoFiles /\ Seed!NoWorkspace' = Seed!NoWorkspace
BY DEF Seed!Order, Seed!Paths, Seed!Session, Seed!CommitOf, Seed!FromCommit,
       Seed!ExpectedAbsent, Seed!NoFiles, Seed!NoWorkspace

\* What TypeOK and OwnInv say, in the terms of a step.
SeedTypes ==
  /\ scene \in SeedScenarios
  /\ pc \in [Callers -> {"create", "empty", "inspect", "open", "copy", "head1", "status1",
                         "plan", "write", "head2", "status2", "returned", "raised", "dead"}]
  /\ at \in [Callers -> 1 .. Len(Seed!Order)]
  /\ edits \in 1 .. MaxEdits /\ head \in 1 .. Len(trees)
  /\ work \in [Seed!Paths -> 0 .. edits] /\ trees \in Seq([Seed!Paths -> 0 .. edits])
  /\ inspected \in [Callers -> [Seed!Paths -> 0 .. edits]]
  /\ moments \in [Callers -> SUBSET [Seed!Paths -> 0 .. MaxEdits]]
  /\ workspaces \in [Sessions -> [by : Callers \cup {Seed!Nobody},
                                  files : [Seed!Paths -> 0 .. MaxEdits]]]
  /\ \A s \in Sessions : workspaces[s].by = Seed!Nobody => workspaces[s] = Seed!NoWorkspace

LEMMA SeedTyped ==
  SeedIInv => SeedTypes
BY SeedScene, SeedConstants
   DEF SeedIInv, SeedTypes, Seed!TypeOK, Seed!SeedInv, Seed!OwnInv

LEMMA SeedTypesSuffice ==
  ASSUME SeedTypes', UNCHANGED scene
  PROVE  Seed!TypeOK'
<1>1. inspected' \in [Callers -> [Seed!Paths' -> 0 .. MaxEdits]]
  BY SeedConstants DEF SeedTypes
<1>2. trees' \in Seq([Seed!Paths' -> 0 .. edits']) /\ DOMAIN trees' = 1 .. Len(trees')
  BY DEF SeedTypes
<1>3. DOMAIN Seed!Order' = 1 .. Len(Seed!Order')
  BY SeedScene, SeedSceneStays DEF SeedTypes
<1> QED BY <1>1, <1>2, <1>3 DEF SeedTypes, Seed!TypeOK

LEMMA SequenceOfMore ==
  ASSUME NEW S, NEW T, S \subseteq T, NEW s \in Seq(S)
  PROVE  s \in Seq(T)
<1>1. Len(s) \in Nat /\ DOMAIN s = 1 .. Len(s) /\ \A i \in 1 .. Len(s) : s[i] \in T
  OBVIOUS
<1>2. s \in [1 .. Len(s) -> T]
  BY <1>1
<1> QED BY <1>1, <1>2

LEMMA SeedStarts ==
  ASSUME Seed!Init
  PROVE  SeedIInv
<1> USE SeedConstants DEF Seed!Init
<1>1. scene \in SeedScenarios /\ 1 \in 1 .. Len(Seed!Order)
  BY SeedScene
<1>2. Seed!FirstTree \in [Seed!Paths -> 0 .. 1] /\ Seed!NoFiles \in [Seed!Paths -> 0 .. 0]
  BY DEF Seed!FirstTree, Seed!NoFiles, Seed!Absent
<1>3. SeedTypes
  <2>1. trees = <<Seed!FirstTree>> /\ Len(trees) = 1 /\ trees \in Seq([Seed!Paths -> 0 .. 1])
    BY <1>2
  <2>2. workspaces \in [Sessions -> [by : Callers \cup {Seed!Nobody},
                                     files : [Seed!Paths -> 0 .. MaxEdits]]]
    BY <1>2 DEF Seed!NoWorkspace
  <2>3. inspected \in [Callers -> [Seed!Paths -> 0 .. 1]]
    BY <1>2
  <2> QED BY <1>1, <1>2, <2>1, <2>2, <2>3 DEF SeedTypes
<1>4. \A c \in Callers : pc[c] = "create"
  OBVIOUS
<1>t. Seed!TypeOK
  <2>1. DOMAIN trees = 1 .. Len(trees) /\ DOMAIN Seed!Order = 1 .. Len(Seed!Order)
    BY <1>1, <1>3, SeedScene DEF SeedTypes
  <2>2. inspected \in [Callers -> [Seed!Paths -> 0 .. MaxEdits]]
    BY <1>3 DEF SeedTypes
  <2> QED BY <1>3, <2>1, <2>2 DEF SeedTypes, Seed!TypeOK
<1>5. Seed!SeedInv
  BY <1>3, <1>4, SeedScene DEF SeedTypes, Seed!SeedInv, Seed!OwnInv, Seed!TreeInv,
     Seed!CommitInv, Seed!FromTree, Seed!Verified
<1>6. Seed!SeedIsAMoment /\ Seed!SeedIsTheCommit
  BY <1>1, <1>4, SeedScene DEF Seed!SeedIsAMoment, Seed!SeedIsTheCommit
<1> QED BY <1>t, <1>5, <1>6 DEF SeedIInv

\* The user of the source tree.
LEMMA SeedUserTypes ==
  ASSUME SeedIInv, Seed!User, UNCHANGED scene
  PROVE  /\ SeedTypes'
         /\ UNCHANGED <<pc, at, inspected, workspaces>>
         /\ Len(trees') >= Len(trees) /\ \A k \in 1 .. Len(trees) : trees'[k] = trees[k]
         /\ \A c \in Callers : c \notin Seed!FromCommit =>
              /\ \A p \in Seed!Paths :
                    work'[p] # work[p] => work'[p] = Seed!Absent \/ work'[p] > edits
              /\ moments[c] \subseteq moments'[c]
              /\ pc[c] \in Seed!FromTree =>
                    work' \in moments'[c] \/ (work' = work /\ moments' = moments)
         /\ \A c \in Callers : pc[c] \notin Seed!FromTree => moments'[c] = moments[c]
<1> USE SeedConstants, SeedSceneStays
<1>1. SeedTypes
  BY SeedTyped
<1>2. ASSUME NEW p \in Seed!Paths, Seed!Edit(p)
      PROVE  /\ SeedTypes' /\ trees' = trees
             /\ UNCHANGED <<pc, at, inspected, workspaces>>
             /\ \A q \in Seed!Paths :
                   work'[q] # work[q] => work'[q] = Seed!Absent \/ work'[q] > edits
             /\ moments' = [c \in Callers |->
                              IF pc[c] \in Seed!FromTree THEN moments[c] \cup {work'}
                                                         ELSE moments[c]]
  <2>1. PICK next \in {edits + 1, 0} : work' = [work EXCEPT ![p] = next]
    BY <1>2 DEF Seed!Edit, Seed!Absent
  <2>2. edits' = edits + 1 /\ edits < MaxEdits /\ UNCHANGED <<pc, at, inspected, workspaces, trees, head>>
    BY <1>2 DEF Seed!Edit
  <2>3. moments' = [c \in Callers |-> IF pc[c] \in Seed!FromTree THEN moments[c] \cup {work'}
                                                                ELSE moments[c]]
    BY <1>2 DEF Seed!Edit, Seed!Seen, Seed!FromTree
  <2>4. /\ work' \in [Seed!Paths -> 0 .. edits'] /\ work' \in [Seed!Paths -> 0 .. MaxEdits]
        /\ edits' \in 1 .. MaxEdits
    BY <1>1, <2>1, <2>2 DEF SeedTypes
  <2>5. trees' \in Seq([Seed!Paths -> 0 .. edits']) /\ inspected' \in [Callers -> [Seed!Paths -> 0 .. edits']]
    <3>1. 0 .. edits \subseteq 0 .. edits'
      BY <1>1, <2>2 DEF SeedTypes
    <3>2. [Seed!Paths -> 0 .. edits] \subseteq [Seed!Paths -> 0 .. edits']
      BY <3>1
    <3>3. trees \in Seq([Seed!Paths -> 0 .. edits])
      BY <1>1 DEF SeedTypes
    <3>4. trees \in Seq([Seed!Paths -> 0 .. edits'])
      BY <3>2, <3>3, SequenceOfMore
    <3> QED BY <1>1, <2>2, <3>2, <3>4 DEF SeedTypes
  <2>6. moments' \in [Callers -> SUBSET [Seed!Paths -> 0 .. MaxEdits]]
    BY <1>1, <2>3, <2>4 DEF SeedTypes
  <2>7. SeedTypes'
    BY <1>1, <2>2, <2>4, <2>5, <2>6 DEF SeedTypes
  <2>8. \A q \in Seed!Paths : work'[q] # work[q] => work'[q] = Seed!Absent \/ work'[q] > edits
    BY <1>1, <2>1 DEF SeedTypes, Seed!Absent
  <2> QED BY <2>2, <2>3, <2>7, <2>8
<1>3. ASSUME Seed!CommitAll
      PROVE  /\ SeedTypes' /\ UNCHANGED <<pc, at, inspected, workspaces, work, moments>>
             /\ Len(trees') >= Len(trees) /\ \A k \in 1 .. Len(trees) : trees'[k] = trees[k]
  <2>1. trees \in Seq([Seed!Paths -> 0 .. edits]) /\ work \in [Seed!Paths -> 0 .. edits]
    BY <1>1 DEF SeedTypes
  <2>2. /\ trees' \in Seq([Seed!Paths -> 0 .. edits]) /\ Len(trees') = Len(trees) + 1
        /\ head' = Len(trees') /\ \A k \in 1 .. Len(trees) : trees'[k] = trees[k]
        /\ UNCHANGED <<pc, at, inspected, workspaces, work, edits, moments>>
    BY <1>3, <2>1 DEF Seed!CommitAll
  <2> QED BY <1>1, <2>2 DEF SeedTypes
<1>4. ASSUME NEW k \in DOMAIN trees, Seed!Checkout(k)
      PROVE  /\ SeedTypes' /\ UNCHANGED <<pc, at, inspected, workspaces, trees, moments>>
  BY <1>1, <1>4 DEF Seed!Checkout, SeedTypes
<1>5. Len(trees) \in Nat
  BY <1>1 DEF SeedTypes
<1>6. CASE \E p \in Seed!Paths : Seed!Edit(p)
  <2>1. PICK p \in Seed!Paths : Seed!Edit(p)
    BY <1>6
  <2> QED BY <1>2, <1>5, <2>1
<1>7. CASE Seed!CommitAll
  BY <1>3, <1>7
<1>8. CASE Seed!FromCommit = Callers /\ \E k \in DOMAIN trees : Seed!Checkout(k)
  BY <1>4, <1>5, <1>8
<1> QED BY <1>6, <1>7, <1>8 DEF Seed!User

LEMMA SeedUser ==
  ASSUME SeedIInv, Seed!User, UNCHANGED scene
  PROVE  SeedIInv'
<1> USE SeedSceneStays, SeedUserTypes
<1>1. SeedTypes
  BY SeedTyped
<1>2. /\ UNCHANGED <<Seed!Order, Seed!Paths, Seed!Session, Seed!CommitOf, Seed!FromCommit,
                     Seed!ExpectedAbsent>>
      /\ UNCHANGED <<pc, at, inspected, workspaces>>
  OBVIOUS
<1>3. \A c \in Callers : /\ Seed!Files(c)' = Seed!Files(c) /\ Seed!Behind(c)' = Seed!Behind(c)
                         /\ Seed!Confirmed(c)' = Seed!Confirmed(c)
  BY <1>2 DEF Seed!Files, Seed!Behind, Seed!Confirmed, Seed!Path
<1>4. Seed!OwnInv'
  BY <1>1, <1>2 DEF SeedTypes, Seed!OwnInv, SeedIInv, Seed!SeedInv
<1>5. Seed!TreeInv'
  <2> SUFFICES ASSUME NEW c \in Callers, pc[c] \in Seed!FromTree
               PROVE  /\ work' \in moments'[c]
                      /\ pc[c] = "inspect" => \A p \in Seed!Behind(c) : inspected[c][p] # Seed!Absent
                      /\ pc[c] # "inspect" =>
                            /\ \A p \in Seed!Paths : inspected[c][p] # Seed!Absent
                            /\ \A p \in Seed!Behind(c) : Seed!Files(c)[p] = inspected[c][p]
                            /\ \E tree \in moments'[c] : \A p \in Seed!Paths :
                                  p \in Seed!Confirmed(c) \/ work'[p] = inspected[c][p]
                                     => tree[p] = inspected[c][p]
    BY <1>2, <1>3 DEF Seed!TreeInv, Seed!FromTree
  <2>1. c \notin Seed!FromCommit
    BY DEF SeedIInv, Seed!SeedInv, Seed!OwnInv
  <2>2. work \in moments[c]
    BY DEF SeedIInv, Seed!SeedInv, Seed!TreeInv
  <2>3. work' \in moments'[c]
    BY <2>1, <2>2
  <2>4. ASSUME pc[c] # "inspect"
        PROVE  \E tree \in moments'[c] : \A p \in Seed!Paths :
                 p \in Seed!Confirmed(c) \/ work'[p] = inspected[c][p] => tree[p] = inspected[c][p]
    <3>1. PICK tree \in moments[c] : \A p \in Seed!Paths :
             p \in Seed!Confirmed(c) \/ work[p] = inspected[c][p] => tree[p] = inspected[c][p]
      BY <2>4 DEF SeedIInv, Seed!SeedInv, Seed!TreeInv
    <3>2. \A p \in Seed!Paths : inspected[c][p] # Seed!Absent /\ inspected[c][p] \in 0 .. edits
      BY <1>1, <2>4 DEF SeedIInv, Seed!SeedInv, Seed!TreeInv, SeedTypes
    <3>3. \A p \in Seed!Paths : work'[p] = inspected[c][p] => work[p] = inspected[c][p]
      BY <1>1, <2>1, <3>2 DEF SeedTypes
    <3>4. tree \in moments'[c]
      BY <2>1, <3>1
    <3> QED BY <3>1, <3>3, <3>4
  <2> QED BY <2>3, <2>4 DEF SeedIInv, Seed!SeedInv, Seed!TreeInv
<1>6. \A c \in Seed!FromCommit : Seed!CommitOf[c] \in DOMAIN trees =>
         Seed!CommitOf[c] \in DOMAIN trees' /\ Seed!TreeOf(c)' = Seed!TreeOf(c)
  <2>1. /\ DOMAIN trees = 1 .. Len(trees) /\ DOMAIN trees' = 1 .. Len(trees')
        /\ Len(trees) \in Nat /\ Len(trees') \in Nat
    BY <1>1 DEF SeedTypes
  <2>2. Len(trees') >= Len(trees) /\ \A k \in 1 .. Len(trees) : trees'[k] = trees[k]
    OBVIOUS
  <2> QED BY <1>2, <2>1, <2>2 DEF Seed!TreeOf
<1>7. Seed!CommitInv'
  <2> SUFFICES ASSUME NEW c \in Seed!FromCommit
               PROVE  /\ pc[c] \in Seed!Verified \cup {"returned"} => Seed!CommitOf[c] \in DOMAIN trees'
                      /\ pc[c] = "plan" => \A p \in Seed!Behind(c) : Seed!Planned(c, p)'
                      /\ pc[c] \in {"write", "head2", "status2"} =>
                            \A p \in Seed!Paths : Seed!Planned(c, p)'
                      /\ pc[c] = "write" =>
                            \A p \in Seed!Behind(c) : Seed!Files(c)[p] = inspected[c][p]
                      /\ pc[c] \in {"head2", "status2"} =>
                            \A p \in Seed!Paths : Seed!Files(c)[p] = inspected[c][p]
    <3>1. \A c \in Seed!FromCommit : c \in Callers
      BY <1>1, SeedScene DEF SeedTypes
    <3> QED BY <1>2, <1>3, <3>1 DEF Seed!CommitInv, Seed!Verified
  <2>1. Seed!CommitInv
    BY DEF SeedIInv, Seed!SeedInv
  <2>2. pc[c] \in Seed!Verified \cup {"returned"} =>
          /\ Seed!CommitOf[c] \in DOMAIN trees'
          /\ \A p : Seed!Planned(c, p)' = Seed!Planned(c, p)
    BY <1>2, <1>6, <2>1 DEF Seed!CommitInv, Seed!Planned
  <2> QED BY <2>1, <2>2 DEF Seed!CommitInv, Seed!Verified
<1>8. Seed!SeedIsAMoment'
  <2>1. \A c \in Callers : pc[c] = "returned" => moments'[c] = moments[c]
    BY DEF Seed!FromTree
  <2> QED BY <1>2, <1>3, <2>1 DEF SeedIInv, Seed!SeedIsAMoment
<1>9. Seed!SeedIsTheCommit'
  <2>1. \A c \in Seed!FromCommit : c \in Callers
    BY <1>1, SeedScene DEF SeedTypes
  <2>2. \A c \in Seed!FromCommit : pc[c] = "returned" =>
          trees'[Seed!CommitOf[c]] = trees[Seed!CommitOf[c]]
    BY <1>2, <1>6 DEF SeedIInv, Seed!SeedInv, Seed!CommitInv, Seed!TreeOf
  <2> QED BY <1>2, <1>3, <2>1, <2>2 DEF SeedIInv, Seed!SeedIsTheCommit
<1> QED BY <1>4, <1>5, <1>7, <1>8, <1>9, SeedTypesSuffice DEF SeedIInv, Seed!SeedInv

\* What the invariant says of one job.
SeedOf(c) ==
  /\ pc[c] \in {"create", "empty", "head1", "status1"} => at[c] = 1
  /\ pc[c] \in Seed!FromTree => c \notin Seed!FromCommit
  /\ pc[c] \in Seed!Verified \cup {"head1"} => c \in Seed!FromCommit
  /\ pc[c] \notin {"create", "raised", "dead"} => workspaces[Seed!Session[c]].by = c
  /\ pc[c] \in Seed!FromTree =>
       /\ work \in moments[c]
       /\ pc[c] = "inspect" => \A p \in Seed!Behind(c) : inspected[c][p] # Seed!Absent
       /\ pc[c] # "inspect" =>
            /\ \A p \in Seed!Paths : inspected[c][p] # Seed!Absent
            /\ \A p \in Seed!Behind(c) : Seed!Files(c)[p] = inspected[c][p]
            /\ \E tree \in moments[c] : \A p \in Seed!Paths :
                 p \in Seed!Confirmed(c) \/ work[p] = inspected[c][p] => tree[p] = inspected[c][p]
  /\ c \in Seed!FromCommit =>
       /\ pc[c] \in Seed!Verified \cup {"returned"} => Seed!CommitOf[c] \in DOMAIN trees
       /\ pc[c] = "plan" => \A p \in Seed!Behind(c) : Seed!Planned(c, p)
       /\ pc[c] \in {"write", "head2", "status2"} => \A p \in Seed!Paths : Seed!Planned(c, p)
       /\ pc[c] = "write" => \A p \in Seed!Behind(c) : Seed!Files(c)[p] = inspected[c][p]
       /\ pc[c] \in {"head2", "status2"} =>
            \A p \in Seed!Paths : Seed!Files(c)[p] = inspected[c][p]
       /\ pc[c] = "returned" =>
            /\ Seed!Files(c) = trees[Seed!CommitOf[c]]
            /\ \A p \in Seed!Paths :
                 (Seed!Files(c)[p] = Seed!Absent) = (p \in Seed!ExpectedAbsent)
  /\ c \notin Seed!FromCommit /\ pc[c] = "returned" =>
       \E tree \in moments[c] : \A p \in Seed!Paths : Seed!Files(c)[p] = tree[p]

LEMMA SeedEach ==
  ASSUME SeedIInv, NEW c \in Callers
  PROVE  SeedOf(c)
BY DEF SeedIInv, Seed!SeedInv, Seed!OwnInv, Seed!TreeInv, Seed!CommitInv,
       Seed!SeedIsAMoment, Seed!SeedIsTheCommit, SeedOf

LEMMA SeedTogether ==
  ASSUME SeedTypes', UNCHANGED scene, \A c \in Callers : SeedOf(c)'
  PROVE  SeedIInv'
<1>1. Seed!TypeOK'
  BY SeedTypesSuffice
<1>2. Seed!OwnInv'
  BY DEF SeedTypes, SeedOf, Seed!OwnInv
<1>3. Seed!TreeInv'
  BY DEF SeedOf, Seed!TreeInv
<1>4. \A c \in Seed!FromCommit' : c \in Callers
  BY SeedScene, SeedSceneStays DEF SeedTypes
<1>5. Seed!CommitInv' /\ Seed!SeedIsTheCommit'
  BY <1>4 DEF SeedOf, Seed!CommitInv, Seed!SeedIsTheCommit
<1>6. Seed!SeedIsAMoment'
  BY DEF SeedOf, Seed!SeedIsAMoment
<1> QED BY <1>1, <1>2, <1>3, <1>5, <1>6 DEF SeedIInv, Seed!SeedInv

\* Two jobs past their mkdir are in different workspaces.
LEMMA SeedApart ==
  ASSUME SeedIInv, NEW c \in Callers, NEW d \in Callers \ {c},
         pc[c] \notin {"create", "raised", "dead"}
           \/ workspaces[Seed!Session[c]] = Seed!NoWorkspace,
         pc[d] \notin {"create", "raised", "dead"}
  PROVE  Seed!Session[d] # Seed!Session[c]
BY SeedConstants, SeedEach DEF SeedOf, Seed!NoWorkspace

\* A step of job c, seen from the others.
LEMMA SeedFrame ==
  ASSUME SeedIInv, NEW c \in Callers, SeedTypes', SeedOf(c)',
         UNCHANGED <<scene, work, trees, head, edits>>,
         \A d \in Callers \ {c} :
            /\ pc'[d] = pc[d] /\ at'[d] = at[d] /\ inspected'[d] = inspected[d]
            /\ moments'[d] = moments[d],
         \/ workspaces' = workspaces
         \/ /\ pc[c] \notin {"create", "raised", "dead"}
                 \/ workspaces[Seed!Session[c]] = Seed!NoWorkspace
            /\ \A s \in Sessions \ {Seed!Session[c]} : workspaces'[s] = workspaces[s]
  PROVE  SeedIInv'
<1> SUFFICES ASSUME NEW d \in Callers \ {c}
             PROVE  SeedOf(d)'
  BY SeedTogether
<1> USE SeedSceneStays
<1>1. SeedOf(d) /\ SeedTypes
  BY SeedEach, SeedTyped
<1>2. pc[d] \notin {"create", "raised", "dead"} =>
        workspaces'[Seed!Session[d]] = workspaces[Seed!Session[d]]
  BY <1>1, SeedApart, SeedScene DEF SeedTypes
<1>3. /\ Seed!Behind(d)' = Seed!Behind(d) /\ Seed!Confirmed(d)' = Seed!Confirmed(d)
      /\ \A p : Seed!Planned(d, p)' = Seed!Planned(d, p)
  BY DEF Seed!Behind, Seed!Confirmed, Seed!Path, Seed!Planned, Seed!TreeOf
<1>4. pc[d] \notin {"create", "raised", "dead"} => Seed!Files(d)' = Seed!Files(d)
  BY <1>2 DEF Seed!Files
<1> QED BY <1>1, <1>2, <1>3, <1>4 DEF SeedOf, Seed!FromTree, Seed!Verified

\* The loops over the paths.
LEMMA SeedLoop ==
  ASSUME SeedTypes, NEW c \in Callers
  PROVE  /\ Seed!Path(c) \in Seed!Paths /\ Seed!Behind(c) \subseteq Seed!Paths
         /\ at[c] = 1 => Seed!Behind(c) = {}
         /\ at[c] = Len(Seed!Order) => Seed!Paths = Seed!Behind(c) \cup {Seed!Path(c)}
         /\ at[c] # Len(Seed!Order) => at[c] + 1 \in 1 .. Len(Seed!Order)
         /\ 1 \in 1 .. Len(Seed!Order)
<1>1. /\ Len(Seed!Order) \in Nat \ {0} /\ at[c] \in 1 .. Len(Seed!Order)
      /\ Seed!Paths = {Seed!Order[i] : i \in 1 .. Len(Seed!Order)}
  BY SeedScene DEF SeedTypes
<1>2. at[c] = Len(Seed!Order) => 1 .. Len(Seed!Order) = (1 .. at[c] - 1) \cup {at[c]}
  BY <1>1
<1> QED BY <1>1, <1>2 DEF Seed!Path, Seed!Behind

LEMMA SeedNext ==
  ASSUME SeedTypes, NEW c \in Callers, UNCHANGED scene
  PROVE  /\ at'[c] = at[c] + 1 => Seed!Behind(c)' = Seed!Behind(c) \cup {Seed!Path(c)}
         /\ at'[c] = 1 => Seed!Behind(c)' = {}
         /\ at'[c] = at[c] => Seed!Behind(c)' = Seed!Behind(c) /\ Seed!Path(c)' = Seed!Path(c)
<1>1. at[c] \in Nat \ {0}
  BY SeedScene DEF SeedTypes
<1>2. at'[c] = at[c] + 1 => 1 .. at'[c] - 1 = (1 .. at[c] - 1) \cup {at[c]}
  BY <1>1
<1> QED BY <1>1, <1>2, SeedSceneStays DEF Seed!Path, Seed!Behind

\* mkdir, and the look at the new workspace.
LEMMA SeedCreates ==
  ASSUME SeedIInv, NEW c \in Callers, Seed!Create(c) \/ Seed!RequireEmpty(c), UNCHANGED scene
  PROVE  SeedIInv'
<1> USE SeedConstants, SeedSceneStays DEF Seed!Goto, Seed!source
<1>1. SeedTypes /\ SeedOf(c) /\ Seed!Session[c] \in Sessions
  BY SeedTyped, SeedEach, SeedScene DEF SeedTypes
<1>2. CASE Seed!Create(c)
  <2>1. UNCHANGED <<at, inspected, work, trees, head, edits, moments>> /\ pc[c] = "create"
    BY <1>2 DEF Seed!Create
  <2>2. CASE workspaces[Seed!Session[c]] = Seed!NoWorkspace
    <3>1. /\ pc' = [pc EXCEPT ![c] = "empty"]
          /\ workspaces' = [workspaces EXCEPT ![Seed!Session[c]] =
                              [by |-> c, files |-> Seed!NoFiles]]
      BY <1>2, <2>2 DEF Seed!Create
    <3>2. Seed!NoFiles \in [Seed!Paths -> 0 .. MaxEdits]
      BY DEF Seed!NoFiles, Seed!Absent
    <3>3. SeedTypes'
      <4>1. workspaces' \in [Sessions -> [by : Callers \cup {Seed!Nobody},
                                          files : [Seed!Paths -> 0 .. MaxEdits]]]
        BY <1>1, <3>1, <3>2 DEF SeedTypes
      <4>2. \A s \in Sessions : workspaces'[s].by = Seed!Nobody => workspaces'[s] = Seed!NoWorkspace
        BY <1>1, <3>1 DEF SeedTypes
      <4>3. pc' \in [Callers -> {"create", "empty", "inspect", "open", "copy", "head1", "status1",
                         "plan", "write", "head2", "status2", "returned", "raised", "dead"}]
        BY <1>1, <3>1 DEF SeedTypes
      <4> QED BY <1>1, <2>1, <4>1, <4>2, <4>3 DEF SeedTypes
    <3>4. pc'[c] = "empty" /\ workspaces'[Seed!Session[c]].by = c
      BY <1>1, <3>1 DEF SeedTypes
    <3>5. SeedOf(c)'
      BY <1>1, <2>1, <3>4 DEF SeedOf, Seed!FromTree, Seed!Verified
    <3> QED BY <1>1, <2>1, <2>2, <3>1, <3>3, <3>5, SeedFrame DEF SeedTypes
  <2>3. CASE workspaces[Seed!Session[c]] # Seed!NoWorkspace
    <3>1. pc' = [pc EXCEPT ![c] = "raised"] /\ UNCHANGED workspaces
      BY <1>2, <2>3 DEF Seed!Create
    <3>2. SeedTypes' /\ pc'[c] = "raised"
      BY <1>1, <2>1, <3>1 DEF SeedTypes
    <3>3. SeedOf(c)'
      BY <3>2 DEF SeedOf, Seed!FromTree, Seed!Verified
    <3> QED BY <1>1, <2>1, <3>1, <3>2, <3>3, SeedFrame DEF SeedTypes
  <2> QED BY <2>2, <2>3
<1>3. CASE Seed!RequireEmpty(c)
  <2>1. /\ UNCHANGED <<at, inspected, workspaces, work, trees, head, edits>> /\ pc[c] = "empty"
        /\ moments' = [moments EXCEPT ![c] = {work}]
    BY <1>3 DEF Seed!RequireEmpty
  <2>2. PICK x \in {"raised", "head1", "inspect"} :
          /\ pc' = [pc EXCEPT ![c] = x]
          /\ x = "head1" => c \in Seed!FromCommit
          /\ x = "inspect" => c \notin Seed!FromCommit
    BY <1>3 DEF Seed!RequireEmpty
  <2>3. SeedTypes' /\ pc'[c] = x /\ moments'[c] = {work}
    <3>1. work \in [Seed!Paths -> 0 .. MaxEdits]
      BY <1>1 DEF SeedTypes
    <3>2. moments' \in [Callers -> SUBSET [Seed!Paths -> 0 .. MaxEdits]] /\ moments'[c] = {work}
      BY <1>1, <2>1, <3>1 DEF SeedTypes
    <3> QED BY <1>1, <2>1, <2>2, <3>2 DEF SeedTypes
  <2>4. Seed!Behind(c)' = {}
    BY <1>1, <2>1, SeedNext DEF SeedOf
  <2>5. SeedOf(c)'
    BY <1>1, <2>1, <2>2, <2>3, <2>4 DEF SeedOf, Seed!FromTree, Seed!Verified
  <2> QED BY <1>1, <2>1, <2>2, <2>3, <2>5, SeedFrame DEF SeedTypes
<1> QED BY <1>2, <1>3

\* A job that gives up, and the commands that only look.
LEMMA SeedChecks ==
  ASSUME SeedIInv, NEW c \in Callers, UNCHANGED scene,
         \/ Seed!CopyRefused(c) \/ Seed!Die(c)
         \/ Seed!CheckHead(c, "head1", "status1") \/ Seed!CheckStatus(c, "status1", "plan")
         \/ Seed!CheckHead(c, "head2", "status2") \/ Seed!CheckStatus(c, "status2", "returned")
  PROVE  SeedIInv'
<1> USE SeedConstants, SeedSceneStays DEF Seed!Goto, Seed!source
<1>1. SeedTypes /\ SeedOf(c)
  BY SeedTyped, SeedEach
<1>2. UNCHANGED <<at, inspected, workspaces, work, trees, head, edits, moments>>
  BY DEF Seed!CopyRefused, Seed!Die, Seed!CheckHead, Seed!CheckStatus
<1>3. PICK x \in {"raised", "dead", "status1", "plan", "status2", "returned"} :
        /\ pc' = [pc EXCEPT ![c] = x]
        /\ x = "status1" => pc[c] = "head1" /\ head = Seed!CommitOf[c]
        /\ x = "plan" => pc[c] = "status1"
        /\ x = "status2" => pc[c] = "head2"
        /\ x = "returned" => pc[c] = "status2"
  BY DEF Seed!CopyRefused, Seed!Die, Seed!CheckHead, Seed!CheckStatus
<1>4. SeedTypes' /\ pc'[c] = x
  BY <1>1, <1>2, <1>3 DEF SeedTypes
<1>5. /\ Seed!Behind(c)' = Seed!Behind(c) /\ Seed!Files(c)' = Seed!Files(c)
      /\ \A p : Seed!Planned(c, p)' = Seed!Planned(c, p)
  BY <1>2 DEF Seed!Behind, Seed!Files, Seed!Planned, Seed!TreeOf
<1>6. head \in DOMAIN trees
  BY <1>1 DEF SeedTypes
<1>7. SeedOf(c)'
  <2>1. CASE x \in {"raised", "dead"}
    BY <1>4, <2>1 DEF SeedOf, Seed!FromTree, Seed!Verified
  <2>2. CASE x = "status1"
    BY <1>1, <1>2, <1>3, <1>4, <1>6, <2>2 DEF SeedOf, Seed!FromTree, Seed!Verified
  <2>3. CASE x = "plan"
    <3>1. Seed!Behind(c)' = {}
      BY <1>1, <1>3, <1>5, <2>3, SeedLoop DEF SeedOf
    <3> QED BY <1>1, <1>2, <1>3, <1>4, <2>3, <3>1 DEF SeedOf, Seed!FromTree, Seed!Verified
  <2>4. CASE x = "status2"
    BY <1>1, <1>2, <1>3, <1>4, <1>5, <2>4 DEF SeedOf, Seed!FromTree, Seed!Verified
  <2>5. CASE x = "returned"
    <3>1. /\ c \in Seed!FromCommit /\ Seed!CommitOf[c] \in DOMAIN trees
          /\ \A p \in Seed!Paths : Seed!Files(c)[p] = inspected[c][p] /\ Seed!Planned(c, p)
          /\ workspaces[Seed!Session[c]].by = c
      BY <1>1, <1>3, <2>5 DEF SeedOf, Seed!Verified
    <3>2. /\ Seed!Files(c) \in [Seed!Paths -> 0 .. MaxEdits]
          /\ trees[Seed!CommitOf[c]] \in [Seed!Paths -> 0 .. edits]
      BY <1>1, <3>1, SeedScene DEF SeedTypes, Seed!Files
    <3>3. Seed!Files(c) = trees[Seed!CommitOf[c]]
      BY <3>1, <3>2 DEF Seed!Planned, Seed!TreeOf
    <3>4. \A p \in Seed!Paths : (Seed!Files(c)[p] = Seed!Absent) = (p \in Seed!ExpectedAbsent)
      BY <3>1 DEF Seed!Planned
    <3> QED BY <1>2, <1>4, <1>5, <2>5, <3>1, <3>3, <3>4
            DEF SeedOf, Seed!FromTree, Seed!Verified
  <2> QED BY <1>3, <2>1, <2>2, <2>3, <2>4, <2>5
<1> QED BY <1>1, <1>2, <1>3, <1>4, <1>7, SeedFrame DEF SeedTypes

\* Where the loop goes from a path.
LEMMA SeedAdvances ==
  ASSUME SeedTypes, NEW c \in Callers, NEW again, NEW after, UNCHANGED scene,
         Seed!Advance(c, again, after),
         again \in {"inspect", "open", "plan", "write"},
         after \in {"open", "returned", "write", "head2"}
  PROVE  /\ pc' = [pc EXCEPT ![c] = pc'[c]] /\ at' = [at EXCEPT ![c] = at'[c]]
         /\ pc' \in [Callers -> {"create", "empty", "inspect", "open", "copy", "head1", "status1",
                         "plan", "write", "head2", "status2", "returned", "raised", "dead"}]
         /\ at' \in [Callers -> 1 .. Len(Seed!Order)]
         /\ \/ /\ pc'[c] = again
               /\ Seed!Behind(c)' = Seed!Behind(c) \cup {Seed!Path(c)}
            \/ /\ pc'[c] = after /\ Seed!Behind(c)' = {}
               /\ Seed!Paths = Seed!Behind(c) \cup {Seed!Path(c)}
<1> USE SeedLoop, SeedNext DEF Seed!Advance, Seed!Goto
<1>1. /\ at \in [Callers -> 1 .. Len(Seed!Order)]
      /\ pc \in [Callers -> {"create", "empty", "inspect", "open", "copy", "head1", "status1",
                         "plan", "write", "head2", "status2", "returned", "raised", "dead"}]
  BY DEF SeedTypes
<1>2. CASE at[c] = Len(Seed!Order)
  <2>1. pc' = [pc EXCEPT ![c] = after] /\ at' = [at EXCEPT ![c] = 1]
    BY <1>2
  <2>2. pc'[c] = after /\ at'[c] = 1
    BY <1>1, <2>1
  <2> QED BY <1>1, <1>2, <2>1, <2>2
<1>3. CASE at[c] # Len(Seed!Order)
  <2>1. pc' = [pc EXCEPT ![c] = again] /\ at' = [at EXCEPT ![c] = at[c] + 1]
    BY <1>3
  <2>2. pc'[c] = again /\ at'[c] = at[c] + 1
    BY <1>1, <2>1
  <2> QED BY <1>1, <1>3, <2>1, <2>2
<1> QED BY <1>2, <1>3

\* A step that takes down what it sees of a path, the preflight's or the plan's.
LEMMA SeedNotes ==
  ASSUME SeedIInv, NEW c \in Callers, UNCHANGED scene, Seed!Inspect(c) \/ Seed!Plan(c)
  PROVE  SeedIInv'
<1> USE SeedConstants, SeedSceneStays DEF Seed!source
<1>1. SeedTypes /\ SeedOf(c) /\ Seed!Path(c) \in Seed!Paths
  BY SeedTyped, SeedEach, SeedLoop
<1>2. UNCHANGED <<workspaces, work, trees, head, edits, moments>>
      /\ pc[c] \in {"inspect", "plan"}
  BY DEF Seed!Inspect, Seed!Plan
<1>3. CASE pc' = [pc EXCEPT ![c] = "raised"] /\ UNCHANGED <<at, inspected>>
  <2>1. SeedTypes' /\ pc'[c] = "raised"
    BY <1>1, <1>2, <1>3 DEF SeedTypes
  <2>2. SeedOf(c)'
    BY <2>1 DEF SeedOf, Seed!FromTree, Seed!Verified
  <2> QED BY <1>1, <1>2, <1>3, <2>1, <2>2, SeedFrame DEF SeedTypes
<1>4. ASSUME NEW seen \in 0 .. edits,
             inspected' = [inspected EXCEPT ![c][Seed!Path(c)] = seen]
      PROVE  /\ inspected' \in [Callers -> [Seed!Paths -> 0 .. edits]]
             /\ inspected'[c][Seed!Path(c)] = seen
             /\ \A p \in Seed!Paths \ {Seed!Path(c)} : inspected'[c][p] = inspected[c][p]
             /\ \A d \in Callers \ {c} : inspected'[d] = inspected[d]
  BY <1>1, <1>4 DEF SeedTypes
<1>5. CASE Seed!Inspect(c) /\ work[Seed!Path(c)] # Seed!Absent
  <2>1. /\ pc[c] = "inspect" /\ Seed!Advance(c, "inspect", "open")
        /\ inspected' = [inspected EXCEPT ![c][Seed!Path(c)] = work[Seed!Path(c)]]
    BY <1>5 DEF Seed!Inspect
  <2>2. work[Seed!Path(c)] \in 0 .. edits
    BY <1>1 DEF SeedTypes
  <2>3. /\ inspected' \in [Callers -> [Seed!Paths -> 0 .. edits]]
        /\ inspected'[c][Seed!Path(c)] = work[Seed!Path(c)]
        /\ \A p \in Seed!Paths \ {Seed!Path(c)} : inspected'[c][p] = inspected[c][p]
        /\ \A d \in Callers \ {c} : inspected'[d] = inspected[d]
    BY <1>4, <2>1, <2>2
  <2>4. SeedTypes'
    BY <1>1, <1>2, <2>1, <2>3, SeedAdvances DEF SeedTypes
  <2>5. \A p \in Seed!Behind(c) \cup {Seed!Path(c)} : inspected'[c][p] # Seed!Absent
    BY <1>1, <1>5, <2>1, <2>3, SeedLoop DEF SeedOf, Seed!FromTree
  <2>6. /\ c \notin Seed!FromCommit /\ work \in moments[c]
        /\ workspaces[Seed!Session[c]].by = c
    BY <1>1, <2>1 DEF SeedOf, Seed!FromTree
  <2>a. /\ c \notin Seed!FromCommit' /\ work' \in moments'[c]
        /\ workspaces'[Seed!Session'[c]].by = c
    BY <1>2, <2>6
  <2>b. \/ pc'[c] = "inspect" /\ Seed!Behind(c)' = Seed!Behind(c) \cup {Seed!Path(c)}
        \/ /\ pc'[c] = "open" /\ Seed!Behind(c)' = {}
           /\ Seed!Paths = Seed!Behind(c) \cup {Seed!Path(c)}
    BY <1>1, <2>1, SeedAdvances
  <2>7. SeedOf(c)'
    <3>1. CASE pc'[c] = "inspect" /\ Seed!Behind(c)' = Seed!Behind(c) \cup {Seed!Path(c)}
      BY <2>a, <2>5, <3>1 DEF SeedOf, Seed!FromTree, Seed!Verified
    <3>2. CASE /\ pc'[c] = "open" /\ Seed!Behind(c)' = {}
               /\ Seed!Paths = Seed!Behind(c) \cup {Seed!Path(c)}
      <4>1. Seed!Confirmed(c)' = {}
        BY <3>2 DEF Seed!Confirmed
      <4>2. \E tree \in moments'[c] : \A p \in Seed!Paths' :
               p \in Seed!Confirmed(c)' \/ work'[p] = inspected'[c][p] => tree[p] = inspected'[c][p]
        BY <2>a, <4>1
      <4>3. \A p \in Seed!Paths' : inspected'[c][p] # Seed!Absent
        BY <2>5, <3>2
      <4> QED BY <2>a, <3>2, <4>2, <4>3 DEF SeedOf, Seed!FromTree, Seed!Verified
    <3> QED BY <2>b, <3>1, <3>2
  <2>8. \A d \in Callers \ {c} : pc'[d] = pc[d] /\ at'[d] = at[d]
    BY <1>1, <2>1, SeedAdvances DEF SeedTypes
  <2> QED BY <1>2, <2>3, <2>4, <2>7, <2>8, SeedFrame
<1>6. CASE /\ Seed!Plan(c)
           /\ (Seed!TreeOf(c)[Seed!Path(c)] = Seed!Absent) = (Seed!Path(c) \in Seed!ExpectedAbsent)
  <2>1. /\ pc[c] = "plan" /\ Seed!Advance(c, "plan", "write")
        /\ inspected' = [inspected EXCEPT ![c][Seed!Path(c)] = Seed!TreeOf(c)[Seed!Path(c)]]
    BY <1>6 DEF Seed!Plan
  <2>2. /\ c \in Seed!FromCommit /\ Seed!CommitOf[c] \in DOMAIN trees
        /\ workspaces[Seed!Session[c]].by = c
        /\ \A p \in Seed!Behind(c) : Seed!Planned(c, p)
    BY <1>1, <2>1 DEF SeedOf, Seed!Verified
  <2>3. Seed!TreeOf(c)[Seed!Path(c)] \in 0 .. edits
    <3>1. trees[Seed!CommitOf[c]] \in [Seed!Paths -> 0 .. edits]
      BY <1>1, <2>2 DEF SeedTypes
    <3> QED BY <1>1, <3>1 DEF Seed!TreeOf
  <2>4. /\ inspected' \in [Callers -> [Seed!Paths -> 0 .. edits]]
        /\ inspected'[c][Seed!Path(c)] = Seed!TreeOf(c)[Seed!Path(c)]
        /\ \A p \in Seed!Paths \ {Seed!Path(c)} : inspected'[c][p] = inspected[c][p]
        /\ \A d \in Callers \ {c} : inspected'[d] = inspected[d]
    BY <1>4, <2>1, <2>3
  <2>5. SeedTypes'
    BY <1>1, <1>2, <2>1, <2>4, SeedAdvances DEF SeedTypes
  <2>6. Seed!TreeOf(c)' = Seed!TreeOf(c)
    BY <1>2 DEF Seed!TreeOf
  <2>7. \A p \in Seed!Behind(c) \cup {Seed!Path(c)} : Seed!Planned(c, p)'
    <3>1. SUFFICES ASSUME NEW p \in Seed!Behind(c) \cup {Seed!Path(c)}
                   PROVE  /\ inspected'[c][p] = Seed!TreeOf(c)[p]
                          /\ (Seed!TreeOf(c)[p] = Seed!Absent) = (p \in Seed!ExpectedAbsent)
      BY <2>6 DEF Seed!Planned
    <3>2. CASE p = Seed!Path(c)
      BY <1>6, <2>4, <3>2
    <3>3. CASE p # Seed!Path(c)
      BY <1>1, <2>2, <2>4, <3>3, SeedLoop DEF Seed!Planned
    <3> QED BY <3>2, <3>3
  <2>a. /\ c \in Seed!FromCommit' /\ Seed!CommitOf'[c] \in DOMAIN trees'
        /\ workspaces'[Seed!Session'[c]].by = c
    BY <1>2, <2>2
  <2>b. \/ pc'[c] = "plan" /\ Seed!Behind(c)' = Seed!Behind(c) \cup {Seed!Path(c)}
        \/ /\ pc'[c] = "write" /\ Seed!Behind(c)' = {}
           /\ Seed!Paths = Seed!Behind(c) \cup {Seed!Path(c)}
    BY <1>1, <2>1, SeedAdvances
  <2>8. SeedOf(c)'
    <3>1. CASE pc'[c] = "plan" /\ Seed!Behind(c)' = Seed!Behind(c) \cup {Seed!Path(c)}
      BY <2>a, <2>7, <3>1 DEF SeedOf, Seed!FromTree, Seed!Verified
    <3>2. CASE /\ pc'[c] = "write" /\ Seed!Behind(c)' = {}
               /\ Seed!Paths = Seed!Behind(c) \cup {Seed!Path(c)}
      BY <2>a, <2>7, <3>2 DEF SeedOf, Seed!FromTree, Seed!Verified
    <3> QED BY <2>b, <3>1, <3>2
  <2>9. \A d \in Callers \ {c} : pc'[d] = pc[d] /\ at'[d] = at[d]
    BY <1>1, <2>1, SeedAdvances DEF SeedTypes
  <2> QED BY <1>2, <2>4, <2>5, <2>8, <2>9, SeedFrame
<1> QED BY <1>3, <1>5, <1>6 DEF Seed!Inspect, Seed!Plan, Seed!Goto

\* The second look at a file confirms the first: the tree that had what has
\* been confirmed had this file too.
LEMMA SeedOpens ==
  ASSUME SeedIInv, NEW c \in Callers, UNCHANGED scene, Seed!Open(c)
  PROVE  SeedIInv'
<1> USE SeedConstants, SeedSceneStays DEF Seed!source, Seed!Goto
<1>1. SeedTypes /\ SeedOf(c) /\ Seed!Path(c) \in Seed!Paths
  BY SeedTyped, SeedEach, SeedLoop
<1>2. UNCHANGED <<at, inspected, workspaces, work, trees, head, edits, moments>> /\ pc[c] = "open"
  BY DEF Seed!Open
<1>3. PICK x \in {"copy", "raised"} :
        /\ pc' = [pc EXCEPT ![c] = x]
        /\ x = "copy" => work[Seed!Path(c)] = inspected[c][Seed!Path(c)]
  BY DEF Seed!Open
<1>4. SeedTypes' /\ pc'[c] = x
  BY <1>1, <1>2, <1>3 DEF SeedTypes
<1>5. SeedOf(c)'
  <2>1. CASE x = "raised"
    BY <1>4, <2>1 DEF SeedOf, Seed!FromTree, Seed!Verified
  <2>2. CASE x = "copy"
    <3>1. /\ Seed!Behind(c)' = Seed!Behind(c) /\ Seed!Files(c)' = Seed!Files(c)
          /\ Seed!Confirmed(c)' = Seed!Behind(c) \cup {Seed!Path(c)}
          /\ Seed!Confirmed(c) = Seed!Behind(c)
      BY <1>2, <1>4, <2>2 DEF Seed!Behind, Seed!Files, Seed!Confirmed, Seed!Path
    <3>2. /\ c \notin Seed!FromCommit /\ work \in moments[c]
          /\ workspaces[Seed!Session[c]].by = c
          /\ \A p \in Seed!Paths : inspected[c][p] # Seed!Absent
          /\ \A p \in Seed!Behind(c) : Seed!Files(c)[p] = inspected[c][p]
      BY <1>1, <1>2 DEF SeedOf, Seed!FromTree
    <3>3. PICK tree \in moments[c] : \A p \in Seed!Paths :
             p \in Seed!Confirmed(c) \/ work[p] = inspected[c][p] => tree[p] = inspected[c][p]
      BY <1>1, <1>2 DEF SeedOf, Seed!FromTree
    <3>4. \A p \in Seed!Paths :
             p \in Seed!Confirmed(c)' \/ work[p] = inspected[c][p] => tree[p] = inspected[c][p]
      BY <1>3, <2>2, <3>1, <3>3
    <3>5. \E t \in moments'[c] : \A p \in Seed!Paths' :
             p \in Seed!Confirmed(c)' \/ work'[p] = inspected'[c][p] => t[p] = inspected'[c][p]
      BY <1>2, <3>3, <3>4
    <3> QED BY <1>2, <1>4, <2>2, <3>1, <3>2, <3>5 DEF SeedOf, Seed!FromTree, Seed!Verified
  <2> QED BY <2>1, <2>2
<1> QED BY <1>1, <1>2, <1>3, <1>4, <1>5, SeedFrame DEF SeedTypes

\* A step that puts a file into the workspace: the copy of what was inspected,
\* or the blob of the plan.
LEMMA SeedWrites ==
  ASSUME SeedIInv, NEW c \in Callers, UNCHANGED scene, Seed!Copy(c) \/ Seed!Write(c)
  PROVE  SeedIInv'
<1> USE SeedConstants, SeedSceneStays DEF Seed!source
<1>1. SeedTypes /\ SeedOf(c) /\ Seed!Path(c) \in Seed!Paths /\ Seed!Session[c] \in Sessions
  BY SeedTyped, SeedEach, SeedLoop, SeedScene DEF SeedTypes
<1>2. UNCHANGED <<inspected, work, trees, head, edits, moments>>
      /\ pc[c] \in {"copy", "write"} /\ workspaces[Seed!Session[c]].by = c
  BY <1>1 DEF Seed!Copy, Seed!Write, SeedOf
<1>3. CASE Seed!Write(c) /\ ~Seed!TargetIsFree(c)
  <2>1. UNCHANGED <<at, workspaces>> /\ pc' = [pc EXCEPT ![c] = "raised"]
    BY <1>3 DEF Seed!Write, Seed!Goto
  <2>2. SeedTypes' /\ pc'[c] = "raised"
    BY <1>1, <1>2, <2>1 DEF SeedTypes
  <2>3. SeedOf(c)'
    BY <2>2 DEF SeedOf, Seed!FromTree, Seed!Verified
  <2> QED BY <1>1, <1>2, <2>1, <2>2, <2>3, SeedFrame DEF SeedTypes
<1>4. CASE ~(Seed!Write(c) /\ ~Seed!TargetIsFree(c))
  <2>1. workspaces' = [workspaces EXCEPT
                         ![Seed!Session[c]].files[Seed!Path(c)] = inspected[c][Seed!Path(c)]]
    BY <1>4 DEF Seed!Copy, Seed!Write, Seed!WriteTarget
  <2>2. \/ pc[c] = "copy" /\ Seed!Advance(c, "open", "returned")
        \/ pc[c] = "write" /\ Seed!Advance(c, "write", "head2")
    BY <1>4 DEF Seed!Copy, Seed!Write
  <2>3. /\ workspaces' \in [Sessions -> [by : Callers \cup {Seed!Nobody},
                                         files : [Seed!Paths -> 0 .. MaxEdits]]]
        /\ \A s \in Sessions \ {Seed!Session[c]} : workspaces'[s] = workspaces[s]
        /\ workspaces'[Seed!Session[c]].by = c
        /\ \A p \in Seed!Paths : Seed!Files(c)'[p] =
             IF p = Seed!Path(c) THEN inspected[c][Seed!Path(c)] ELSE Seed!Files(c)[p]
    <3>1. inspected[c][Seed!Path(c)] \in 0 .. MaxEdits
      BY <1>1 DEF SeedTypes
    <3> DEFINE s == Seed!Session[c]
               old == workspaces[s].files
               new == [old EXCEPT ![Seed!Path(c)] = inspected[c][Seed!Path(c)]]
    <3>2. workspaces' = [workspaces EXCEPT ![s] = [workspaces[s] EXCEPT !.files = new]]
      BY <2>1
    <3>3. /\ workspaces \in [Sessions -> [by : Callers \cup {Seed!Nobody},
                                          files : [Seed!Paths -> 0 .. MaxEdits]]]
          /\ s \in Sessions
      BY <1>1 DEF SeedTypes
    <3>4. /\ new \in [Seed!Paths -> 0 .. MaxEdits]
          /\ \A p \in Seed!Paths : new[p] =
               IF p = Seed!Path(c) THEN inspected[c][Seed!Path(c)] ELSE old[p]
      BY <1>1, <3>1, <3>3
    <3>5. Seed!Files(c) = old /\ Seed!Files(c)' = workspaces'[s].files
      BY DEF Seed!Files
    <3> HIDE DEF new, old
    <3>6. /\ workspaces' \in [Sessions -> [by : Callers \cup {Seed!Nobody},
                                           files : [Seed!Paths -> 0 .. MaxEdits]]]
          /\ \A t \in Sessions \ {s} : workspaces'[t] = workspaces[t]
          /\ workspaces'[s].by = workspaces[s].by /\ workspaces'[s].files = new
      BY <3>2, <3>3, <3>4
    <3> QED BY <1>2, <3>4, <3>5, <3>6
  <2>4. SeedTypes'
    <3>1. \A s \in Sessions : workspaces'[s].by = Seed!Nobody => workspaces'[s] = Seed!NoWorkspace
      <4> SUFFICES ASSUME NEW s \in Sessions, workspaces'[s].by = Seed!Nobody
                   PROVE  workspaces'[s] = Seed!NoWorkspace
        OBVIOUS
      <4>1. s # Seed!Session[c]
        BY <2>3
      <4>2. workspaces'[s] = workspaces[s]
        BY <2>3, <4>1
      <4> QED BY <1>1, <4>2 DEF SeedTypes
    <3>2. pc' \in [Callers -> {"create", "empty", "inspect", "open", "copy", "head1", "status1",
                         "plan", "write", "head2", "status2", "returned", "raised", "dead"}]
          /\ at' \in [Callers -> 1 .. Len(Seed!Order)]
      BY <1>1, <2>2, SeedAdvances
    <3> QED BY <1>1, <1>2, <2>3, <3>1, <3>2 DEF SeedTypes
  <2>5. \A d \in Callers \ {c} : pc'[d] = pc[d] /\ at'[d] = at[d]
    BY <1>1, <2>2, SeedAdvances DEF SeedTypes
  <2>6. /\ \A p \in Seed!Behind(c) : Seed!Files(c)[p] = inspected[c][p]
        /\ Seed!Behind(c) \subseteq Seed!Paths
    BY <1>1, <1>2, SeedLoop DEF SeedOf, Seed!FromTree, Seed!Verified
  <2>7. \A p \in Seed!Behind(c) \cup {Seed!Path(c)} : Seed!Files(c)'[p] = inspected[c][p]
    BY <1>1, <2>3, <2>6
  <2>8. SeedOf(c)'
    <3>1. CASE pc[c] = "copy"
      <4>1. /\ c \notin Seed!FromCommit /\ work \in moments[c]
            /\ \A p \in Seed!Paths : inspected[c][p] # Seed!Absent
        BY <1>1, <3>1 DEF SeedOf, Seed!FromTree
      <4>2. PICK tree \in moments[c] : \A p \in Seed!Paths :
               p \in Seed!Confirmed(c) \/ work[p] = inspected[c][p] => tree[p] = inspected[c][p]
        BY <1>1, <3>1 DEF SeedOf, Seed!FromTree
      <4>3. Seed!Confirmed(c) = Seed!Behind(c) \cup {Seed!Path(c)}
        BY <3>1 DEF Seed!Confirmed
      <4>4. \/ pc'[c] = "open" /\ Seed!Behind(c)' = Seed!Behind(c) \cup {Seed!Path(c)}
            \/ /\ pc'[c] = "returned"
               /\ Seed!Paths = Seed!Behind(c) \cup {Seed!Path(c)}
        BY <1>1, <2>2, <3>1, SeedAdvances
      <4>5. CASE pc'[c] = "open" /\ Seed!Behind(c)' = Seed!Behind(c) \cup {Seed!Path(c)}
        <5>1. Seed!Confirmed(c)' = Seed!Confirmed(c)
          BY <4>3, <4>5 DEF Seed!Confirmed
        <5>2. \E t \in moments'[c] : \A p \in Seed!Paths' :
                 p \in Seed!Confirmed(c)' \/ work'[p] = inspected'[c][p] => t[p] = inspected'[c][p]
          BY <1>2, <4>2, <5>1
        <5>3. \A p \in Seed!Behind(c)' : Seed!Files(c)'[p] = inspected'[c][p]
          BY <1>2, <2>7, <4>5
        <5> QED BY <1>2, <2>3, <4>1, <4>5, <5>2, <5>3 DEF SeedOf, Seed!FromTree, Seed!Verified
      <4>6. CASE pc'[c] = "returned" /\ Seed!Paths = Seed!Behind(c) \cup {Seed!Path(c)}
        <5>1. \A p \in Seed!Paths : Seed!Files(c)'[p] = tree[p]
          BY <2>7, <4>2, <4>3, <4>6
        <5>2. \E t \in moments'[c] : \A p \in Seed!Paths' : Seed!Files(c)'[p] = t[p]
          BY <1>2, <4>2, <5>1
        <5> QED BY <1>2, <2>3, <4>1, <4>6, <5>2 DEF SeedOf, Seed!FromTree, Seed!Verified
      <4> QED BY <4>4, <4>5, <4>6
    <3>2. CASE pc[c] = "write"
      <4>1. /\ c \in Seed!FromCommit /\ Seed!CommitOf[c] \in DOMAIN trees
            /\ \A p \in Seed!Paths : Seed!Planned(c, p)
        BY <1>1, <3>2 DEF SeedOf, Seed!Verified
      <4>2. \A p \in Seed!Paths : Seed!Planned(c, p)'
        BY <1>2, <4>1 DEF Seed!Planned, Seed!TreeOf
      <4>3. \/ pc'[c] = "write" /\ Seed!Behind(c)' = Seed!Behind(c) \cup {Seed!Path(c)}
            \/ pc'[c] = "head2" /\ Seed!Paths = Seed!Behind(c) \cup {Seed!Path(c)}
        BY <1>1, <2>2, <3>2, SeedAdvances
      <4>4. /\ c \in Seed!FromCommit' /\ Seed!CommitOf'[c] \in DOMAIN trees'
            /\ workspaces'[Seed!Session'[c]].by = c
            /\ pc'[c] = "write" => \A p \in Seed!Behind(c)' : Seed!Files(c)'[p] = inspected'[c][p]
            /\ pc'[c] = "head2" => \A p \in Seed!Paths' : Seed!Files(c)'[p] = inspected'[c][p]
        BY <1>2, <2>3, <2>7, <4>1, <4>3
      <4> QED BY <4>2, <4>3, <4>4 DEF SeedOf, Seed!FromTree, Seed!Verified
    <3> QED BY <1>2, <3>1, <3>2
  <2> QED BY <1>2, <2>3, <2>4, <2>5, <2>8, SeedFrame
<1> QED BY <1>3, <1>4

LEMMA SeedStep ==
  ASSUME SeedIInv, [Seed!Next]_(Seed!vars)
  PROVE  SeedIInv'
<1>1. CASE UNCHANGED Seed!vars
  <2>1. UNCHANGED <<scene, pc, at, inspected, workspaces, work, trees, head, edits, moments>>
    BY <1>1 DEF Seed!vars, Seed!source
  <2>2. SeedTypes'
    BY <2>1, SeedTyped, SeedSceneStays DEF SeedTypes
  <2>3. ASSUME NEW c \in Callers
        PROVE  SeedOf(c)'
    <3>1. /\ Seed!Behind(c)' = Seed!Behind(c) /\ Seed!Confirmed(c)' = Seed!Confirmed(c)
          /\ Seed!Files(c)' = Seed!Files(c)
          /\ \A p : Seed!Planned(c, p)' = Seed!Planned(c, p)
      BY <2>1, SeedSceneStays DEF Seed!Behind, Seed!Confirmed, Seed!Path, Seed!Files,
         Seed!Planned, Seed!TreeOf
    <3> QED BY <2>1, <3>1, SeedSceneStays, SeedEach DEF SeedOf, Seed!FromTree, Seed!Verified
  <2> QED BY <2>1, <2>2, <2>3, SeedTogether
<1>2. CASE Seed!Next
  BY <1>2, SeedUser, SeedCreates, SeedChecks, SeedNotes, SeedOpens, SeedWrites
     DEF Seed!Next, Seed!Job
<1> QED BY <1>1, <1>2

LEMMA SeedResult ==
  ASSUME SeedIInv
  PROVE  Seed!WorkspaceIsItsOwn
BY DEF SeedIInv, Seed!SeedInv, Seed!OwnInv, Seed!WorkspaceIsItsOwn

-----------------------------------------------------------------------------
(***************************************************************************)
(* Together.                                                               *)
(***************************************************************************)
OutsideIInv == (part = "intake" => IntakeIInv) /\ (part = "seed" => SeedIInv)

LEMMA OutsideStarts ==
  ASSUME OutsideInit
  PROVE  OutsideIInv
BY IntakeStarts, SeedStarts DEF OutsideInit, OutsideIInv

LEMMA SeedSteps ==
  ASSUME part = "seed" => SeedIInv, [OutsideNext]_outsideVars
  PROVE  part' = "seed" => SeedIInv'
<1>1. CASE UNCHANGED outsideVars
  BY <1>1, SeedStep DEF outsideVars, seedOnly, Intake!vars, Intake!repository, Intake!reading,
     Seed!vars, Seed!source
<1>2. CASE OutsideNext
  BY <1>2, SeedStep DEF OutsideNext
<1> QED BY <1>1, <1>2

LEMMA IntakeSteps ==
  ASSUME part = "intake" => IntakeIInv, [OutsideNext]_outsideVars
  PROVE  part' = "intake" => IntakeIInv'
<1>1. CASE UNCHANGED outsideVars
  BY <1>1, IntakeStep DEF outsideVars
<1>2. CASE OutsideNext
  BY <1>2, IntakeStep DEF OutsideNext
<1> QED BY <1>1, <1>2

\* For any candidates, contents and bounds, whatever the repository's user edits,
\* stages, commits, switches to and puts back: a proposal
\* (lab_promotion_inspector.py) names a branch and a HEAD of one moment and says of
\* every path what that commit holds, and the preimages
\* (lab_promotion_preimage_collector.py) are the proposal's.  What the Git commands
\* cannot tell apart is left out call by call and path by path, and nothing else: a
\* branch left and joined again between its two readings, a HEAD that moved between
\* the last two commands, a path put back after it was read; the preimages are
\* wrong only where both calls, before and after the human, were deceived.
THEOREM IntakesAreCommitted ==
  OutsideSpec => []IntakeIsCommitted
<1> DEFINE Inv == part = "intake" => IntakeIInv
<1>1. OutsideInit => Inv
  BY OutsideStarts DEF OutsideIInv
<1>2. Inv /\ [OutsideNext]_outsideVars => Inv'
  BY IntakeSteps
<1>3. Inv => IntakeIsCommitted
  BY IntakeResult DEF IntakeIInv, IntakeIsCommitted
<1> QED BY <1>1, <1>2, <1>3, PTL DEF OutsideSpec

\* For any jobs, sessions, paths, commits and edits: a workspace that is returned
\* to a job (lab_workspace.py) was made by it; files copied out of a source tree
\* (lab_workspace_seed.py) were all there at one moment, and files from a commit
\* (lab_committed_workspace_seed.py) are those of the commit.
THEOREM SeedsAreWhole ==
  OutsideSpec => []SeedIsWhole
<1> DEFINE Inv == part = "seed" => SeedIInv
<1>1. OutsideInit => Inv
  BY OutsideStarts DEF OutsideIInv
<1>2. Inv /\ [OutsideNext]_outsideVars => Inv'
  BY SeedSteps
<1>3. Inv => SeedIsWhole
  BY SeedResult DEF SeedIInv, SeedIsWhole
<1> QED BY <1>1, <1>2, <1>3, PTL DEF OutsideSpec
=============================================================================
