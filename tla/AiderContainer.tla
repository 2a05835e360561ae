--------------------------- MODULE AiderContainer ---------------------------
(***************************************************************************)
(* `AiderWorker.run` (lab_aider_worker.py): a worker request is executed   *)
(* in a Docker container whose name and label are derived from the         *)
(* request.  The call checks that no such container exists, runs `docker   *)
(* run` in the foreground with a deadline, inspects the container, removes *)
(* it and reports a worker result.                                         *)
(*                                                                         *)
(* Each docker command is a client process that talks to the daemon; the   *)
(* daemon owns the container.  `docker run` sends two requests, create and *)
(* start, and a client that is killed or fails leaves its last request     *)
(* with the daemon.  Several calls of the same request are modelled, each  *)
(* of which can die with its Python process, whose client lives on in its  *)
(* own session.                                                            *)
(***************************************************************************)
EXTENDS Naturals

CONSTANTS
    Callers,   \* the calls of run() with one worker request
    MayDie,    \* whether the Python process of a call may die
    MayFail    \* whether a docker command may fail or hang of itself

Nobody == "nobody"

AiderAssumption ==
    /\ Nobody \notin Callers /\ MayDie \in BOOLEAN /\ MayFail \in BOOLEAN

VARIABLES
    pc,         \* where run() is
    outcome,    \* of `docker run`: returncode zero or not, or timed_out
    evicting,   \* the container was seen running after the command returned
    force,      \* _remove_bound_container saw the container running
    client,     \* the `docker run` client
    request,    \* the request of that client the daemon holds
    container,  \* the container of that name: who made it, and its state
    ended       \* how the container of a call ended of itself

calls == <<pc, outcome, evicting, force>>
vars  == <<calls, client, request, container, ended>>

Absent == [by |-> Nobody, state |-> "absent"]

Init ==
    /\ pc = [c \in Callers |-> "check"] /\ outcome = [c \in Callers |-> "none"]
    /\ evicting = [c \in Callers |-> FALSE] /\ force = [c \in Callers |-> FALSE]
    /\ client = [c \in Callers |-> "off"] /\ request = [c \in Callers |-> "none"]
    /\ container = Absent /\ ended = [c \in Callers |-> "never"]

Goto(c, next) == pc' = [pc EXCEPT ![c] = next]

(***************************************************************************)
(* run().                                                                  *)
(***************************************************************************)

\* The first `_container_state`, and the refusal of an existing container.
Check(c) ==
    /\ pc[c] = "check"
    /\ Goto(c, IF container = Absent THEN "start" ELSE "raised")
    /\ UNCHANGED <<outcome, evicting, force, client, request, container, ended>>

StartClient(c) ==
    /\ pc[c] = "start" /\ Goto(c, "run")
    /\ client' = [client EXCEPT ![c] = "creating"]
    /\ request' = [request EXCEPT ![c] = "create"]
    /\ UNCHANGED <<outcome, evicting, force, container, ended>>

\* Mutant: the time of a client that waits for the daemon does not count.
TimeOutAttached(c) ==
    /\ pc[c] = "run" /\ outcome[c] = "none" /\ client[c] = "attached"
    /\ client' = [client EXCEPT ![c] = "gone"]
    /\ outcome' = [outcome EXCEPT ![c] = "timedout"] /\ Goto(c, "state")
    /\ UNCHANGED <<evicting, force, request, container, ended>>

\* The deadline: the client is killed, what it asked for is not withdrawn.
TimeOut(c) ==
    /\ pc[c] = "run" /\ outcome[c] = "none"
    /\ client' = [client EXCEPT ![c] = "gone"]
    /\ outcome' = [outcome EXCEPT ![c] = "timedout"] /\ Goto(c, "state")
    /\ UNCHANGED <<evicting, force, request, container, ended>>

ClientReturned(c) ==
    /\ pc[c] = "run" /\ outcome[c] # "none" /\ Goto(c, "state")
    /\ UNCHANGED <<outcome, evicting, force, client, request, container, ended>>

\* Mutant: a call that timed out leaves the container to itself.
InspectUnlessTimedOut(c) ==
    /\ pc[c] = "state"
    /\ Goto(c, IF outcome[c] = "timedout" THEN "returned"
               ELSE IF container # Absent THEN "remove"
               ELSE IF outcome[c] = "zero" THEN "raised" ELSE "returned")
    /\ evicting' = [evicting EXCEPT ![c] =
                        outcome[c] # "timedout" /\ container.state = "running"]
    /\ UNCHANGED <<outcome, force, client, request, container, ended>>

\* The `_container_state` after the command.
Inspect(c) ==
    /\ pc[c] = "state"
    /\ Goto(c, IF container # Absent THEN "remove"
               ELSE IF outcome[c] = "zero" THEN "raised" ELSE "returned")
    /\ evicting' = [evicting EXCEPT ![c] =
                        outcome[c] # "timedout" /\ container.state = "running"]
    /\ UNCHANGED <<outcome, force, client, request, container, ended>>

\* Where a finished removal leads.
Removed(c) == IF evicting[c] THEN "raised" ELSE "returned"

\* `_remove_bound_container`: its own inspection, docker rm, and a check.
Remove(c) ==
    /\ pc[c] = "remove"
    /\ Goto(c, IF container = Absent THEN Removed(c) ELSE "rm")
    /\ force' = [force EXCEPT ![c] = container.state = "running"]
    /\ UNCHANGED <<outcome, evicting, client, request, container, ended>>

\* docker rm refuses a running container unless it is forced.
RemovableBy(c) == container # Absent /\ (container.state = "running" => force[c])

Rm(c) ==
    /\ pc[c] = "rm"
    /\ IF RemovableBy(c)
       THEN container' = Absent /\ Goto(c, "verify")
       ELSE container' = container /\ Goto(c, "raised")
    /\ UNCHANGED <<outcome, evicting, force, client, request, ended>>

\* docker rm took effect, and its client failed or hung.
RmLost(c) ==
    /\ MayFail /\ pc[c] = "rm" /\ RemovableBy(c)
    /\ container' = Absent /\ Goto(c, "raised")
    /\ UNCHANGED <<outcome, evicting, force, client, request, ended>>

Verify(c) ==
    /\ pc[c] = "verify"
    /\ Goto(c, IF container = Absent THEN Removed(c) ELSE "raised")
    /\ UNCHANGED <<outcome, evicting, force, client, request, container, ended>>

\* A control command or the reader of its output fails: AiderWorkerError.
Raise(c) ==
    /\ MayFail /\ pc[c] \in {"check", "start", "run", "state", "remove", "rm", "verify"}
    /\ Goto(c, "raised")
    /\ UNCHANGED <<outcome, evicting, force, client, request, container, ended>>

Die(c) ==
    /\ MayDie /\ pc[c] \notin {"returned", "raised", "dead"} /\ Goto(c, "dead")
    /\ UNCHANGED <<outcome, evicting, force, client, request, container, ended>>

Run(c) ==
    \/ Check(c) \/ StartClient(c) \/ ClientReturned(c)
    \/ Inspect(c) \/ Remove(c) \/ Rm(c) \/ Verify(c)

(***************************************************************************)
(* The client of `docker run`, the daemon and the container (external).    *)
(***************************************************************************)
Report(c, code) ==
    /\ client' = [client EXCEPT ![c] = "gone"]
    /\ outcome' = [outcome EXCEPT ![c] = IF @ = "none" THEN code ELSE @]

DaemonCreates(c) ==
    /\ request[c] = "create" /\ request' = [request EXCEPT ![c] = "none"]
    /\ IF container = Absent
       THEN /\ container' = [by |-> c, state |-> "created"]
            /\ client' = [client EXCEPT ![c] = IF @ = "creating" THEN "created" ELSE @]
            /\ UNCHANGED outcome
       ELSE /\ UNCHANGED container   \* the name is taken
            /\ IF client[c] = "creating" THEN Report(c, "nonzero")
               ELSE UNCHANGED <<client, outcome>>
    /\ UNCHANGED <<pc, evicting, force, ended>>

ClientStarts(c) ==
    /\ client[c] = "created" /\ client' = [client EXCEPT ![c] = "starting"]
    /\ request' = [request EXCEPT ![c] = "start"]
    /\ UNCHANGED <<calls, container, ended>>

DaemonStarts(c) ==
    /\ request[c] = "start" /\ request' = [request EXCEPT ![c] = "none"]
    /\ IF container = [by |-> c, state |-> "created"]
       THEN /\ container' = [container EXCEPT !.state = "running"]
            /\ client' = [client EXCEPT ![c] = IF @ = "starting" THEN "attached" ELSE @]
            /\ UNCHANGED outcome
       ELSE /\ UNCHANGED container
            /\ IF client[c] = "starting" THEN Report(c, "nonzero")
               ELSE UNCHANGED <<client, outcome>>
    /\ UNCHANGED <<pc, evicting, force, ended>>

DaemonDrops(c) ==
    /\ request[c] # "none" /\ client[c] = "gone"
    /\ request' = [request EXCEPT ![c] = "none"]
    /\ UNCHANGED <<calls, client, container, ended>>

WorkerExits(code) ==
    /\ container.state = "running"
    /\ container' = [container EXCEPT !.state = "exited"]
    /\ ended' = [ended EXCEPT ![container.by] = code]
    /\ UNCHANGED <<calls, client, request>>

ClientReports(c) ==
    /\ client[c] = "attached"
    /\ container # [by |-> c, state |-> "running"]
    /\ Report(c, IF ended[c] = "zero" THEN "zero" ELSE "nonzero")
    /\ UNCHANGED <<pc, evicting, force, request, container, ended>>

\* The client fails, and the daemon keeps its request.
ClientFails(c) ==
    /\ MayFail /\ client[c] \notin {"off", "gone"} /\ Report(c, "nonzero")
    /\ UNCHANGED <<pc, evicting, force, request, container, ended>>

Docker(c) ==
    DaemonCreates(c) \/ ClientStarts(c) \/ DaemonStarts(c) \/ ClientReports(c)

Next ==
    \/ \E c \in Callers :
          \/ Run(c) \/ TimeOut(c) \/ RmLost(c) \/ Raise(c) \/ Die(c)
          \/ Docker(c) \/ DaemonDrops(c) \/ ClientFails(c)
    \/ \E code \in {"zero", "nonzero"} : WorkerExits(code)

Spec == Init /\ [][Next]_vars

(***************************************************************************)
(* Properties.                                                             *)
(***************************************************************************)
\* Mutant: whatever is no timeout is a completion.
StatusUnlessTimedOut(c) ==
    IF outcome[c] = "timedout" THEN "TIMED_OUT" ELSE "COMPLETED"

\* The status of the worker result.
Status(c) ==
    CASE outcome[c] = "timedout" -> "TIMED_OUT"
      [] outcome[c] = "zero"     -> "COMPLETED"
      [] OTHER                   -> "FAILED"

TypeOK ==
    /\ pc \in [Callers -> {"check", "start", "run", "state", "remove", "rm", "verify",
                           "returned", "raised", "dead"}]
    /\ outcome \in [Callers -> {"none", "zero", "nonzero", "timedout"}]
    /\ evicting \in [Callers -> BOOLEAN] /\ force \in [Callers -> BOOLEAN]
    /\ client \in [Callers -> {"off", "creating", "created", "starting", "attached", "gone"}]
    /\ request \in [Callers -> {"none", "create", "start"}]
    /\ container \in [by : Callers \cup {Nobody},
                      state : {"absent", "created", "running", "exited"}]
    /\ (container.by = Nobody) = (container.state = "absent")
    /\ ended \in [Callers -> {"never", "zero", "nonzero"}]

\* A worker result means that its worker has stopped for good: whichever way
\* run() comes to return a result, and whatever requests a killed or failed
\* client left with the daemon, the container of that call does not run, then
\* or at any later time.
ResultMeansNothingRuns ==
    \A c \in Callers :
        pc[c] = "returned" => container # [by |-> c, state |-> "running"]

\* COMPLETED is said of a container of this very call that ran, exited with
\* zero of itself, and has been removed.
CompletedRanToTheEnd ==
    \A c \in Callers :
        (pc[c] = "returned" /\ Status(c) = "COMPLETED") =>
            ended[c] = "zero" /\ container.by # c

\* Why those hold: a call asks for one container only, so the container it has
\* removed never comes back; what is left with the daemon after its return can
\* at most be the creation of a container that nobody starts; and a call comes
\* to its inspection only when its client is gone.
AiderInv ==
    \A c \in Callers :
        /\ pc[c] \in {"check", "start"} => client[c] = "off"
        /\ client[c] = "off" =>
              request[c] = "none" /\ container.by # c /\ ended[c] = "never"
        /\ container.by = c => request[c] # "create"
        /\ outcome[c] # "none" => client[c] = "gone"
        /\ pc[c] \in {"state", "remove", "rm", "verify", "returned"} => outcome[c] # "none"
        /\ client[c] = "attached" => request[c] = "none"
        /\ ended[c] # "never" =>
              request[c] # "create" /\ (container.by = c => container.state = "exited")
        /\ outcome[c] = "zero" => ended[c] = "zero" /\ request[c] = "none"
        /\ (pc[c] = "returned" /\ container.by = c) =>
              container.state = "created" /\ request[c] = "none"

\* What every run() reaches, though the worker never exits and the daemon never
\* answers the create or the start.
IsBack == \A c \in Callers : pc[c] \in {"returned", "raised", "dead"}

\* Only the call that made a container removes it: an existing container is
\* refused, never deleted or reused.  At "rm" the next step is docker rm.
NeverDeletesAnother ==
    \A c \in Callers : (pc[c] = "rm" /\ RemovableBy(c)) => container.by = c

=============================================================================
