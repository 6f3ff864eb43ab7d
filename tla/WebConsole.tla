------------------------------ MODULE WebConsole ------------------------------
(***************************************************************************)
(* src/webConfig: the web console's server (server.py, one thread for      *)
(* every request) and the two managers of child processes it calls         *)
(* (console_runtime.py): ServiceManager for the actor and the learner,     *)
(* ViewerExampleRunner for the viewer example, each under a lock of its    *)
(* own.  Commands, profiles, logs and the status pages are left out.       *)
(***************************************************************************)

CONSTANT Requests       \* the requests that may be served at the same time

Services == {"actor", "learner"}
Roles == Services \cup {"example"}

VARIABLES
    request,        \* each request's thread: where it is, and for which role
    process,        \* the recorded process of each role: none, running, signalled, exited
    unrecorded      \* the roles whose record was replaced while its process lived

consoleVars == <<request, process, unrecorded>>

ConsoleInit ==
    /\ request = [r \in Requests |-> [pc |-> "idle", role |-> "none"]]
    /\ process = [role \in Roles |-> "none"]
    /\ unrecorded = {}

Serving(r, pc) == request[r].pc = pc
Becomes(r, pc) == request' = [request EXCEPT ![r].pc = pc]
Replies(r) == request' = [request EXCEPT ![r] = [pc |-> "idle", role |-> "none"]]

MutIsRunning(role) == process[role] = "running"

\* poll() is None: a process that was only told to stop is still running
IsRunning(role) == process[role] \in {"running", "signalled"}

\* start_console_service and start_console_example: the other manager's status, read under
\* its lock, decides whether this manager is called
Excluded(role) ==
    IF role = "example" THEN \E service \in Services : IsRunning(service) ELSE IsRunning("example")

StartRequest(r, role) ==
    /\ Serving(r, "idle") /\ ~Excluded(role)
    /\ request' = [request EXCEPT ![r] = [pc |-> "start", role |-> role]]
    /\ UNCHANGED <<process, unrecorded>>

Refused(role) == IsRunning(role) \/ (role = "actor" /\ ~IsRunning("learner"))

\* ServiceManager.start, ViewerExampleRunner.start: checks and Popen under the lock
Start(r) ==
    LET role == request[r].role
    IN  /\ Serving(r, "start")
        /\ process' = IF Refused(role) THEN process ELSE [process EXCEPT ![role] = "running"]
        /\ unrecorded' = IF ~Refused(role) /\ process[role] \in {"running", "signalled"}
                         THEN unrecorded \cup {role} ELSE unrecorded
        /\ Replies(r)

\* stop, under the lock: the learner not before the actor; SIGTERM to the process group
StopRequest(r, role) ==
    /\ Serving(r, "idle") /\ IsRunning(role)
    /\ role = "learner" => ~IsRunning("actor")
    /\ process' = [process EXCEPT ![role] = "signalled"]
    /\ request' = [request EXCEPT ![r] = [pc |-> "wait", role |-> role]]
    /\ UNCHANGED unrecorded

\* outside the lock: wait, and after eight seconds kill
StopWait(r) ==
    /\ Serving(r, "wait")
    /\ process' = [process EXCEPT ![request[r].role] = IF @ = "signalled" THEN "exited" ELSE @]
    /\ Replies(r)
    /\ UNCHANGED unrecorded

\* a process ends by itself or follows the signal
ProcessExits(role) ==
    /\ process[role] \in {"running", "signalled"}
    /\ process' = [process EXCEPT ![role] = "exited"]
    /\ UNCHANGED <<request, unrecorded>>

ConsoleNext ==
    \/ \E r \in Requests, role \in Roles : StartRequest(r, role) \/ StopRequest(r, role)
    \/ \E r \in Requests : Start(r) \/ StopWait(r)
    \/ \E role \in Roles : ProcessExits(role)

ConsoleSpec == ConsoleInit /\ [][ConsoleNext]_consoleVars

-----------------------------------------------------------------------------
(* Properties                                                              *)

\* The console never loses a live process: a second one of the same role starts only after
\* the first is gone, although stop() waits for it outside the lock while other requests are
\* served (ServiceManager.start 323-352, stop 354-375).
NoLiveProcessLost == unrecorded = {}

\* "To avoid contention for MuJoCo and robot resources, the viewer run cannot be started while
\* the actor or the learner is running" (webConfig/README.md:34; server.py enforces it in both
\* directions, 195-197 and 260-267).
ExampleExcludesServices ==
    ~(process["example"] = "running" /\ \E service \in Services : process[service] = "running")
=============================================================================
