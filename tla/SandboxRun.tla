------------------------------ MODULE SandboxRun ------------------------------
(***************************************************************************)
(* One RUN action of the lab: `execute_lab_run` launches the program under *)
(* bubblewrap and `_capture_bounded` (lab_executor.py) reads its two       *)
(* output pipes, with a deadline, an output limit, one kill of the process *)
(* group and a bounded wait at the end.                                    *)
(*                                                                         *)
(* Three actors: the executor's loop; the leader, the process that was     *)
(* launched; and a helper, a process of the sandbox the leader left in the *)
(* background, which holds the output pipes on its own account.  The       *)
(* executor sees them through the pipes, through poll() and through the    *)
(* clock only.                                                             *)
(***************************************************************************)
EXTENDS Naturals, FiniteSets

CONSTANTS
    Limit,       \* OUTPUT_LIMIT_BYTES
    PipeRead,    \* PIPE_READ_BYTES
    MaxWritten   \* bound: what the sandbox writes to one stream

ASSUME SandboxAssumption ==
    /\ Limit \in Nat /\ PipeRead \in Nat \ {0} /\ MaxWritten \in Nat

Streams == {"stdout", "stderr"}
Writers == {"leader", "helper"}

VARIABLES
    pc,          \* "top", "kill", "select", "read", "wait", "returned", "raised"
    events,      \* the streams select() found readable
    registered,  \* the streams the selector still watches
    kept,        \* per stream, the bytes in its bytearray
    truncated,   \* per stream, the *_truncated flag
    timedOut,    \* timed_out
    terminating, \* termination_started
    late,        \* the deadline of the run has passed
    drained,     \* KILL_DRAIN_SECONDS have passed since the kill or the wait
    leader,      \* "running", "zero" or "nonzero" (its own exit), "killed"
    helper,      \* "none", "running", "dead"
    holders,     \* per stream, the processes that hold its write end
    written,     \* per stream, the bytes ever written
    unread       \* per stream, the bytes in the pipe

loop    == <<pc, events, registered, kept, truncated, timedOut, terminating>>
sandbox == <<leader, helper, holders, written, unread>>
vars    == <<loop, late, drained, sandbox>>

Init ==
    /\ pc = "top" /\ events = {} /\ registered = Streams
    /\ kept = [s \in Streams |-> 0] /\ truncated = [s \in Streams |-> FALSE]
    /\ timedOut = FALSE /\ terminating = FALSE
    /\ late = FALSE /\ drained = FALSE
    /\ leader = "running" /\ helper = "none"
    /\ holders = [s \in Streams |-> {"leader"}]
    /\ written = [s \in Streams |-> 0] /\ unread = [s \in Streams |-> 0]

(***************************************************************************)
(* The loop of `_capture_bounded`.                                         *)
(***************************************************************************)

\* No stream is left to read: the process is waited for.
Drained ==
    /\ pc = "top" /\ registered = {}
    /\ pc' = "wait" /\ drained' = FALSE
    /\ UNCHANGED <<events, registered, kept, truncated, timedOut, terminating, late, sandbox>>

\* Mutant: only a program with both pipes open is timed out.
TimeOutBothOpen ==
    /\ pc = "top" /\ registered = Streams
    /\ ~terminating /\ leader = "running" /\ late
    /\ timedOut' = TRUE /\ pc' = "kill"
    /\ UNCHANGED <<events, registered, kept, truncated, terminating, late, drained, sandbox>>

\* Mutant: the flag is not set.
TimeOutUnmarked ==
    /\ pc = "top" /\ registered # {}
    /\ ~terminating /\ leader = "running" /\ late
    /\ pc' = "kill"
    /\ UNCHANGED <<events, registered, kept, truncated, timedOut, terminating, late, drained,
                   sandbox>>

\* poll() says the process runs and the deadline has passed.
TimeOut ==
    /\ pc = "top" /\ registered # {}
    /\ ~terminating /\ leader = "running" /\ late
    /\ timedOut' = TRUE /\ pc' = "kill"
    /\ UNCHANGED <<events, registered, kept, truncated, terminating, late, drained, sandbox>>

\* The pipes did not close in time after the kill.
GiveUpDraining ==
    /\ pc = "top" /\ registered # {} /\ terminating /\ drained
    /\ pc' = "raised"
    /\ UNCHANGED <<events, registered, kept, truncated, timedOut, terminating, late, drained,
                   sandbox>>

LoopOn ==
    /\ pc = "top" /\ registered # {}
    /\ ~(~terminating /\ leader = "running" /\ late)
    /\ ~(terminating /\ drained)
    /\ pc' = "select"
    /\ UNCHANGED <<events, registered, kept, truncated, timedOut, terminating, late, drained,
                   sandbox>>

\* `_kill_process_group`: a group that is gone is no error.  The helper may
\* have left the group; it goes with the namespace, in Reap.
Kill(next) ==
    /\ pc = "kill"
    /\ terminating' = TRUE /\ drained' = FALSE
    /\ leader' = IF leader = "running" THEN "killed" ELSE leader
    /\ holders' = [s \in Streams |-> holders[s] \ {"leader"}]
    /\ pc' = next
    /\ UNCHANGED <<events, registered, kept, truncated, timedOut, late, helper, written, unread>>

KillAndDrain == Kill(IF events = {} THEN "select" ELSE "read")

\* The kill is refused for another reason: LabExecutorError.
KillRefused ==
    /\ pc = "kill" /\ pc' = "raised"
    /\ UNCHANGED <<events, registered, kept, truncated, timedOut, terminating, late, drained,
                   sandbox>>

Select ==
    /\ pc = "select"
    /\ events' = {s \in registered : unread[s] > 0 \/ holders[s] = {}}
    /\ pc' = IF events' = {} THEN "top" ELSE "read"
    /\ UNCHANGED <<registered, kept, truncated, timedOut, terminating, late, drained, sandbox>>

\* Mutant: the end of one stream is taken for the end of the output.
EndOfFileEndsAll(s) ==
    /\ pc = "read" /\ s \in events /\ unread[s] = 0
    /\ registered' = {} /\ events' = {} /\ pc' = "top"
    /\ UNCHANGED <<kept, truncated, timedOut, terminating, late, drained, sandbox>>

EndOfFile(s) ==
    /\ pc = "read" /\ s \in events /\ unread[s] = 0
    /\ registered' = registered \ {s} /\ events' = events \ {s}
    /\ pc' = IF events' = {} THEN "top" ELSE "read"
    /\ UNCHANGED <<kept, truncated, timedOut, terminating, late, drained, sandbox>>

\* Mutant: the last chunk is kept whole.
AppendWhole(s, chunk) ==
    [size     |-> IF kept[s] < Limit THEN kept[s] + chunk ELSE kept[s],
     exceeded |-> chunk > Limit - kept[s]]

\* `_append_bounded`: what is beyond the limit is read and dropped.
AppendBounded(s, chunk) ==
    [size     |-> IF kept[s] + chunk > Limit THEN Limit ELSE kept[s] + chunk,
     exceeded |-> chunk > Limit - kept[s]]

ReadChunk(s) ==
    /\ pc = "read" /\ s \in events /\ unread[s] > 0
    /\ LET chunk == IF unread[s] < PipeRead THEN unread[s] ELSE PipeRead
           after == AppendBounded(s, chunk)
       IN  /\ unread' = [unread EXCEPT ![s] = @ - chunk]
           /\ kept' = [kept EXCEPT ![s] = after.size]
           /\ truncated' = [truncated EXCEPT ![s] = @ \/ after.exceeded]
           /\ events' = events \ {s}
           /\ pc' = IF after.exceeded /\ ~terminating THEN "kill"
                    ELSE IF events' = {} THEN "top" ELSE "read"
    /\ UNCHANGED <<registered, timedOut, terminating, late, drained, leader, helper, holders,
                   written>>

\* Mutant: the process is not waited for.
ReturnUnwaited ==
    /\ pc = "wait" /\ pc' = "returned"
    /\ UNCHANGED <<events, registered, kept, truncated, timedOut, terminating, late, drained,
                   sandbox>>

\* process.wait(timeout) returned: the result is built.
Return ==
    /\ pc = "wait" /\ leader # "running" /\ pc' = "returned"
    /\ UNCHANGED <<events, registered, kept, truncated, timedOut, terminating, late, drained,
                   sandbox>>

GiveUpWaiting ==
    /\ pc = "wait" /\ leader = "running" /\ drained /\ pc' = "raised"
    /\ UNCHANGED <<events, registered, kept, truncated, timedOut, terminating, late, drained,
                   sandbox>>

Loop ==
    \/ Drained \/ TimeOut \/ GiveUpDraining \/ LoopOn
    \/ KillAndDrain \/ KillRefused
    \/ Select \/ (\E s \in Streams : EndOfFile(s) \/ ReadChunk(s))
    \/ Return \/ GiveUpWaiting

(***************************************************************************)
(* The sandbox and the clock.                                              *)
(***************************************************************************)
Running(w) == IF w = "leader" THEN leader = "running" ELSE helper = "running"

Write(w, s) ==
    /\ Running(w) /\ w \in holders[s] /\ written[s] < MaxWritten
    /\ written' = [written EXCEPT ![s] = @ + 1]
    /\ unread' = [unread EXCEPT ![s] = @ + 1]
    /\ UNCHANGED <<loop, late, drained, leader, helper, holders>>

CloseStream(w, s) ==
    /\ Running(w) /\ w \in holders[s]
    /\ holders' = [holders EXCEPT ![s] = @ \ {w}]
    /\ UNCHANGED <<loop, late, drained, leader, helper, written, unread>>

Fork ==
    /\ leader = "running" /\ helper = "none" /\ helper' = "running"
    /\ holders' = [s \in Streams |->
                       holders[s] \cup (IF "leader" \in holders[s] THEN {"helper"} ELSE {})]
    /\ UNCHANGED <<loop, late, drained, leader, written, unread>>

LeaderExits(status) ==
    /\ leader = "running" /\ leader' = status
    /\ holders' = [s \in Streams |-> holders[s] \ {"leader"}]
    /\ UNCHANGED <<loop, late, drained, helper, written, unread>>

HelperEnds ==
    /\ helper = "running" /\ helper' = "dead"
    /\ holders' = [s \in Streams |-> holders[s] \ {"helper"}]
    /\ UNCHANGED <<loop, late, drained, leader, written, unread>>

\* --unshare-pid and --die-with-parent: the namespace ends with its leader.
Reap == leader # "running" /\ HelperEnds

Tick ==
    \/ ~late /\ late' = TRUE /\ UNCHANGED <<loop, drained, sandbox>>
    \/ ~drained /\ (terminating \/ pc = "wait") /\ drained' = TRUE
       /\ UNCHANGED <<loop, late, sandbox>>

Sandbox ==
    \/ \E w \in Writers, s \in Streams : Write(w, s) \/ CloseStream(w, s)
    \/ Fork \/ HelperEnds
    \/ \E status \in {"zero", "nonzero"} : LeaderExits(status)

Next == Loop \/ Sandbox \/ Tick

Spec == Init /\ [][Next]_vars

(***************************************************************************)
(* Properties.                                                             *)
(***************************************************************************)
TypeOK ==
    /\ pc \in {"top", "kill", "select", "read", "wait", "returned", "raised"}
    /\ events \subseteq registered /\ registered \subseteq Streams
    /\ kept \in [Streams -> 0 .. Limit] /\ truncated \in [Streams -> BOOLEAN]
    /\ {timedOut, terminating, late, drained} \subseteq BOOLEAN
    /\ leader \in {"running", "zero", "nonzero", "killed"}
    /\ helper \in {"none", "running", "dead"}
    /\ holders \in [Streams -> SUBSET Writers]
    /\ written \in [Streams -> 0 .. MaxWritten] /\ unread \in [Streams -> 0 .. MaxWritten]

\* A result tells all of the output or says that it does not: at a return no
\* process can add to a stream, what was kept is everything that was ever
\* written to it up to the limit, whoever wrote it and whenever it died, and
\* the flag is up exactly when something was dropped.
OutputIsAccounted ==
    pc = "returned" =>
        \A s \in Streams :
            /\ holders[s] = {}
            /\ truncated[s] = (written[s] > Limit)
            /\ kept[s] = IF written[s] > Limit THEN Limit ELSE written[s]

\* A result without a mark is the program's own: if neither the timeout nor a
\* truncation is reported, the executor never signalled the process group and
\* the exit status is the one the program chose.
UnmarkedIsOwn ==
    (pc = "returned" /\ ~timedOut /\ \A s \in Streams : ~truncated[s]) =>
        ~terminating /\ leader \in {"zero", "nonzero"}

\* The executor never takes a process for ended that still runs: a result is
\* only built of a leader that is dead.
ResultMeansEnded == pc = "returned" => ~Running("leader")

\* Why those hold: at every moment what was kept and the flag tell of exactly the
\* bytes that left the pipe; a stream that is no longer watched is empty and has
\* no writer left, and neither has one that select() found at its end; and the
\* group is only signalled after a mark was set.
SandboxInv ==
    /\ \A s \in Streams :
          /\ unread[s] <= written[s]
          /\ truncated[s] <=> written[s] - unread[s] > Limit
          /\ kept[s] = IF written[s] - unread[s] > Limit THEN Limit
                       ELSE written[s] - unread[s]
          /\ s \notin registered => unread[s] = 0 /\ holders[s] = {}
          /\ s \in events => unread[s] > 0 \/ holders[s] = {}
    /\ pc \in {"wait", "returned"} => registered = {}
    /\ terminating \/ pc = "kill" => timedOut \/ \E s \in Streams : truncated[s]
    /\ leader = "killed" => terminating
    /\ pc = "returned" => leader # "running"

\* What a call of execute_lab_run reaches whatever the program does with its
\* outputs, its children and its time.
IsBack == pc \in {"returned", "raised"}

=============================================================================
