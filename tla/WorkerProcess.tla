---------------------------- MODULE WorkerProcess ----------------------------
(***************************************************************************)
(* One run of an external worker: `_default_command_runner` and            *)
(* `_terminate_process_group` of lab_codex_worker.py, and the same pair in *)
(* lab_aider_worker.py, which runs the Docker client.                      *)
(*                                                                         *)
(* Four actors: the caller, which waits for the process with a deadline,   *)
(* ends its group when the deadline passes and then waits for the reader;  *)
(* the reader, a daemon thread that empties the one output pipe; the       *)
(* leader, the process that was launched; and a helper, a process that the *)
(* leader leaves behind, in its group or out of it, with or without the    *)
(* pipe.  Nothing confines the processes: what ends them is a signal, or   *)
(* themselves.                                                             *)
(***************************************************************************)
EXTENDS Naturals, FiniteSets

CONSTANTS
    Limit,       \* max_output_bytes
    PipeRead,    \* the 64 KiB of one os.read
    MaxWritten   \* bound: what the processes write

WorkerProcessAssumption ==
    Limit \in Nat /\ PipeRead \in Nat \ {0} /\ MaxWritten \in Nat

Processes == {"leader", "helper"}

VARIABLES
    pc,         \* where the caller is
    timedOut,   \* timed_out
    expired,    \* the timeout of the caller's present wait has passed
    closed,     \* the caller has closed its end of the pipe
    reader,     \* "top", "read", "ended" or "failed"
    captured,   \* the bytes in the bytearray
    truncated,  \* truncated[0]
    leader,     \* "running", "zero" or "nonzero" (its own exit), "killed"
    helper,     \* "none", "running", "dead"
    grouped,    \* the helper is in the leader's process group
    holders,    \* the processes that hold the write end
    written,    \* the bytes ever written
    unread      \* the bytes in the pipe

caller    == <<pc, timedOut, expired, closed>>
thread    == <<reader, captured, truncated>>
processes == <<leader, helper, grouped, holders, written, unread>>
vars      == <<caller, thread, processes>>

Init ==
    /\ pc = "wait" /\ timedOut = FALSE /\ expired = FALSE /\ closed = FALSE
    /\ reader = "top" /\ captured = 0 /\ truncated = FALSE
    /\ leader = "running" /\ helper = "none" /\ grouped = TRUE
    /\ holders = {"leader"} /\ written = 0 /\ unread = 0

(***************************************************************************)
(* The caller.                                                             *)
(***************************************************************************)

\* A new wait starts with its whole timeout.
WaitAt(step) == pc' = step /\ expired' = FALSE

Ended == leader # "running"

\* process.wait() saw the process end, in the first wait or after a signal.
LeaderEnded ==
    /\ pc \in {"wait", "wait_term", "wait_kill"} /\ Ended
    /\ WaitAt("join") /\ UNCHANGED <<timedOut, closed, thread, processes>>

\* Mutant: timed_out is only set when the group could be ended.
TimeOutUnmarked ==
    /\ pc = "wait" /\ expired /\ ~Ended
    /\ pc' = "term" /\ UNCHANGED <<timedOut, expired, closed, thread, processes>>

TimeOut ==
    /\ pc = "wait" /\ expired /\ ~Ended
    /\ timedOut' = TRUE /\ pc' = "term"
    /\ UNCHANGED <<expired, closed, thread, processes>>

InGroup(p) == p = "leader" \/ grouped

Running(p) == IF p = "leader" THEN leader = "running" ELSE helper = "running"

\* The processes in `these` end by a signal.
EndBySignal(these) ==
    /\ leader' = IF "leader" \in these THEN "killed" ELSE leader
    /\ helper' = IF "helper" \in these THEN "dead" ELSE helper
    /\ holders' = holders \ these
    /\ UNCHANGED <<grouped, written, unread>>

\* os.killpg: a process may ignore SIGTERM, and may be a while in dying of
\* either signal.  A group that has ended by itself is no error.
Signal(step, wait) ==
    /\ pc = step
    /\ \E these \in SUBSET {p \in Processes : Running(p) /\ InGroup(p)} : EndBySignal(these)
    /\ WaitAt(wait) /\ UNCHANGED <<timedOut, closed, thread>>

Terminate == Signal("term", "wait_term")
Kill      == Signal("kill", "wait_kill")

StillThere ==
    /\ pc = "wait_term" /\ expired /\ ~Ended
    /\ pc' = "kill" /\ UNCHANGED <<timedOut, expired, closed, thread, processes>>

\* "process group could not be terminated".
GiveUpKilling ==
    /\ pc = "wait_kill" /\ expired /\ ~Ended
    /\ pc' = "raised" /\ UNCHANGED <<timedOut, expired, closed, thread, processes>>

ReaderDone == reader \in {"ended", "failed"}

\* Mutant: reader.join() without a timeout.
ClosePipeNever ==
    /\ pc = "join" /\ expired /\ ~ReaderDone /\ FALSE
    /\ closed' = TRUE /\ WaitAt("rejoin") /\ UNCHANGED <<timedOut, thread, processes>>

\* The reader is still there after 5 seconds: its pipe is closed.
ClosePipe ==
    /\ pc = "join" /\ expired /\ ~ReaderDone
    /\ closed' = TRUE /\ WaitAt("rejoin") /\ UNCHANGED <<timedOut, thread, processes>>

\* Mutant: the reader's thread need not have ended after the second wait.
ReturnAnyway ==
    /\ \/ pc \in {"join", "rejoin"} /\ reader = "ended"
       \/ pc = "rejoin" /\ expired /\ reader # "failed"
    /\ pc' = "returned" /\ closed' = TRUE
    /\ UNCHANGED <<timedOut, expired, thread, processes>>

\* A CodexCommandResult is built of a reader that saw the end of the pipe.
Return ==
    /\ pc \in {"join", "rejoin"} /\ reader = "ended"
    /\ pc' = "returned" /\ closed' = TRUE
    /\ UNCHANGED <<timedOut, expired, thread, processes>>

\* "output capture did not terminate safely".
RaiseCapture ==
    /\ \/ pc \in {"join", "rejoin"} /\ reader = "failed"
       \/ pc = "rejoin" /\ expired /\ ~ReaderDone
    /\ pc' = "raised" /\ closed' = TRUE
    /\ UNCHANGED <<timedOut, expired, thread, processes>>

Caller ==
    \/ LeaderEnded \/ TimeOut \/ Terminate \/ StillThere \/ Kill \/ GiveUpKilling
    \/ ClosePipe \/ Return \/ RaiseCapture

(***************************************************************************)
(* The reader.                                                             *)
(***************************************************************************)

\* `process.stdout.fileno()` raises on a closed pipe, and so does a read that
\* had not begun; one that had begun goes on and can still end.
AskFileno ==
    /\ reader = "top" /\ ~closed /\ reader' = "read"
    /\ UNCHANGED <<caller, captured, truncated, processes>>

ReaderFails ==
    /\ reader \in {"top", "read"} /\ closed /\ reader' = "failed"
    /\ UNCHANGED <<caller, captured, truncated, processes>>

\* What is beyond the limit is read and dropped.
Keep(chunk) ==
    /\ captured' = IF captured + chunk > Limit THEN Limit ELSE captured + chunk
    /\ truncated' = (truncated \/ captured + chunk > Limit)

ReadChunk ==
    /\ reader = "read" /\ unread > 0
    /\ LET chunk == IF unread < PipeRead THEN unread ELSE PipeRead
       IN  Keep(chunk) /\ unread' = unread - chunk
    /\ reader' = "top"
    /\ UNCHANGED <<caller, leader, helper, grouped, holders, written>>

EndOfFile ==
    /\ reader = "read" /\ unread = 0 /\ holders = {}
    /\ reader' = "ended"
    /\ UNCHANGED <<caller, captured, truncated, processes>>

Reader == AskFileno \/ ReaderFails \/ ReadChunk \/ EndOfFile

(***************************************************************************)
(* The processes and the clock (external).                                 *)
(***************************************************************************)
Write(p) ==
    /\ Running(p) /\ p \in holders /\ written < MaxWritten
    /\ written' = written + 1 /\ unread' = unread + 1
    /\ UNCHANGED <<caller, thread, leader, helper, grouped, holders>>

CloseStdout(p) ==
    /\ Running(p) /\ p \in holders /\ holders' = holders \ {p}
    /\ UNCHANGED <<caller, thread, leader, helper, grouped, written, unread>>

Fork(group) ==
    /\ leader = "running" /\ helper = "none"
    /\ helper' = "running" /\ grouped' = group
    /\ holders' = holders \cup (IF "leader" \in holders THEN {"helper"} ELSE {})
    /\ UNCHANGED <<caller, thread, leader, written, unread>>

LeaderExits(status) ==
    /\ leader = "running" /\ leader' = status /\ holders' = holders \ {"leader"}
    /\ UNCHANGED <<caller, thread, helper, grouped, written, unread>>

\* A signal that was sent takes its time.
LeaderDies ==
    /\ leader = "running" /\ timedOut /\ pc # "term"
    /\ leader' = "killed" /\ holders' = holders \ {"leader"}
    /\ UNCHANGED <<caller, thread, helper, grouped, written, unread>>

HelperEnds ==
    /\ helper = "running" /\ helper' = "dead" /\ holders' = holders \ {"helper"}
    /\ UNCHANGED <<caller, thread, leader, grouped, written, unread>>

\* The timeout of the wait the caller is in passes.
Tick ==
    /\ pc \in {"wait", "wait_term", "wait_kill", "join", "rejoin"} /\ ~expired
    /\ expired' = TRUE
    /\ UNCHANGED <<pc, timedOut, closed, thread, processes>>

External ==
    \/ \E p \in Processes : Write(p) \/ CloseStdout(p)
    \/ \E group \in BOOLEAN : Fork(group)
    \/ \E status \in {"zero", "nonzero"} : LeaderExits(status)
    \/ LeaderDies \/ HelperEnds

Next == Caller \/ Reader \/ External \/ Tick

Spec == Init /\ [][Next]_vars

(***************************************************************************)
(* Properties.                                                             *)
(***************************************************************************)
TypeOK ==
    /\ pc \in {"wait", "term", "wait_term", "kill", "wait_kill", "join", "rejoin",
               "returned", "raised"}
    /\ {timedOut, expired, closed, truncated, grouped} \subseteq BOOLEAN
    /\ reader \in {"top", "read", "ended", "failed"}
    /\ captured \in 0 .. Limit /\ {written, unread} \subseteq 0 .. MaxWritten
    /\ leader \in {"running", "zero", "nonzero", "killed"}
    /\ helper \in {"none", "running", "dead"} /\ holders \subseteq Processes

\* CodexWorker._run: the status of a result.
Status ==
    IF timedOut THEN "TIMED_OUT" ELSE IF leader = "zero" THEN "COMPLETED" ELSE "FAILED"

\* The log of a result is the whole output up to the limit, whoever wrote it,
\* and says so when it is not: no process holds the pipe any more, not one that
\* was left in the background and not one that outlived the signals, although
\* the pipe may have been closed under the reader's hands.
LogIsAccounted ==
    pc = "returned" =>
        /\ holders = {}
        /\ truncated = (written > Limit)
        /\ captured = IF written > Limit THEN Limit ELSE written

\* A worker that is reported COMPLETED or FAILED ended by its own choice, in
\* its time and with the status that it gave; the signals of a timeout that it
\* raced are never taken for it.
StatusIsItsOwn ==
    (pc = "returned" /\ Status # "TIMED_OUT") => leader \in {"zero", "nonzero"}

\* Why those hold: the log and its flag tell of exactly the bytes that left the
\* pipe; a reader that saw the end left an empty pipe without a writer; a call
\* returns after both it and the leader have ended; and no signal is sent before
\* the timeout is marked.
WorkerInv ==
    /\ unread <= written
    /\ truncated <=> written - unread > Limit
    /\ captured = IF written - unread > Limit THEN Limit ELSE written - unread
    /\ reader = "ended" => unread = 0 /\ holders = {}
    /\ pc = "returned" => reader = "ended"
    /\ pc \in {"join", "rejoin", "returned"} => leader # "running"
    /\ leader = "killed" \/ pc \in {"term", "wait_term", "kill", "wait_kill"} => timedOut

\* What a call reaches whatever the worker and its processes do with signals, the
\* pipe and their time.
IsBack == pc \in {"returned", "raised"}
=============================================================================
