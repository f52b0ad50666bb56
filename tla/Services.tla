---- MODULE Services ----
(***************************************************************************)
(* The services behind a runtime session: the daemon and worker threads,   *)
(* their start-up and shutdown (runtime/managed_services.py,               *)
(* worker/process.py, runtime_session.py), and the socket loop of the      *)
(* daemon (daemon/server.py, daemon/client.py), which serves one           *)
(* connection at a time and polls inside the handler of a wait.            *)
(*                                                                         *)
(* A connection carries one request, except the session's persistent       *)
(* control connection.  A client that no longer waits for its answer has   *)
(* closed its socket: the daemon's sendall raises, and the exception       *)
(* leaves serve_forever.                                                   *)
(*                                                                         *)
(* A request to the worker is one step here: its handlers never wait.      *)
(***************************************************************************)
EXTENDS Sequences, FiniteSets, TLC

CONSTANTS
    Modes,       \* how the session was opened: with its own services, attached
                 \* to a daemon, or by open_socket, with a control connection or not
    EarlyWaits,  \* whether a client waits for an intent whose execution failed
    Timeouts,    \* whether TURBOBUS_DAEMON_SOCKET_TIMEOUT_SECONDS is set
    None

ASSUME ServicesAssumption ==
    /\ Modes \subseteq {"managed", "attach", "socket", "control"}
    /\ {EarlyWaits, Timeouts} \subseteq BOOLEAN

VARIABLES
    mode,     \* one of Modes
    phase,    \* what the session's thread is doing
    held,     \* services whose stop event start-up, then the session, holds
    stop,     \* the services' stop events
    record,   \* _managed_service_records
    daemon,   \* the daemon's thread
    worker,   \* the worker's thread
    queue,    \* connections the daemon has not accepted
    conn,     \* the one it serves
    control,  \* the persistent connection: None, "held" or "asked"
    call,     \* each client's call: None, "pending", or how it ended
    transfer, \* the session's transfer at the daemon
    execution \* and at the worker

vars == <<mode, phase, held, stop, record, daemon, worker, queue, conn, control,
          call, transfer, execution>>
socketVars == <<daemon, queue, conn, control>>
serviceVars == <<held, stop, record>>
transferVars == <<transfer, execution>>

Threads == {"daemon", "worker"}
Clients == {"session", "worker", "other"}

\* The socket exists from bind until the service's loop is left
Bound == daemon \in {"check", "accept", "serve"}

Init ==
    /\ mode \in Modes
    /\ CASE mode = "managed" -> phase = "boot" /\ daemon = "off" /\ worker = "none"
         [] mode = "attach" ->
                phase = "wait_daemon" /\ daemon \in {"off", "check"}
                /\ worker \in {"none", "serving"}
         [] OTHER -> phase = "up" /\ daemon = "check" /\ worker = "serving"
    /\ held = {} /\ stop = [s \in Threads |-> FALSE]
    /\ record = [s \in Threads |-> IF mode = "attach" THEN "attaching" ELSE None]
    /\ IF mode = "control"
       THEN control = "held" /\ queue = <<[by |-> "control", req |-> None, live |-> TRUE]>>
       ELSE control = None /\ queue = <<>>
    /\ conn = None
    /\ call = [c \in Clients |-> None]
    /\ transfer = "none" /\ execution = "none"

----------------------------------------------------------------------------
\* Clients

Request(c, req) == [by |-> c, req |-> req, live |-> TRUE]

\* connect, sendall and recv of _DaemonSocketClientBase.send
Connect(c, req) ==
    /\ call[c] = None
    /\ IF Bound
       THEN queue' = Append(queue, Request(c, req)) /\ call' = [call EXCEPT ![c] = "pending"]
       ELSE call' = [call EXCEPT ![c] = "error"] /\ UNCHANGED queue
    /\ UNCHANGED <<daemon, conn, control>>

Ended(c) == call[c] \in {"ok", "error"}

Forget(c) == call' = [call EXCEPT ![c] = None]

\* A socket timeout: the client closes its socket and raises.  Bound: one such
\* connection at a time, as the daemon does not survive it.
Unplugged(c, k) == IF k # None /\ k.by = c THEN [k EXCEPT !.live = FALSE] ELSE k

Abandoned == (conn # None /\ ~conn.live) \/ \E i \in DOMAIN queue : ~queue[i].live

GiveUp(c) ==
    /\ Timeouts /\ ~Abandoned /\ call[c] = "pending" /\ control # "asked"
    /\ call' = [call EXCEPT ![c] = "error"]
    /\ queue' = [i \in DOMAIN queue |-> Unplugged(c, queue[i])]
    /\ conn' = Unplugged(c, conn)
    /\ UNCHANGED <<mode, phase, serviceVars, daemon, worker, control, transferVars>>

\* Another process calls the daemon
OtherCalls ==
    /\ IF call["other"] = None
       THEN Bound /\ Connect("other", "other")
       ELSE Ended("other") /\ Forget("other") /\ UNCHANGED socketVars
    /\ UNCHANGED <<mode, phase, serviceVars, worker, transferVars>>

----------------------------------------------------------------------------
\* serve_forever of the daemon

DaemonBinds ==
    /\ daemon = "starting"
    /\ daemon' = "check"
    /\ UNCHANGED <<mode, phase, serviceVars, worker, queue, conn, control, call, transferVars>>

\* The way out of serve_forever closes every socket
Leave ==
    /\ daemon' = "dead" /\ queue' = <<>> /\ conn' = None /\ control' = None

Unanswered == [c \in Clients |-> IF call[c] = "pending" THEN "error" ELSE call[c]]

FailDaemon ==
    record' = IF mode = "managed" THEN [record EXCEPT !["daemon"] = "failed"] ELSE record

LoopCheck ==
    /\ daemon = "check"
    /\ IF stop["daemon"]
       THEN Leave /\ call' = Unanswered
       ELSE daemon' = "accept" /\ UNCHANGED <<queue, conn, control, call>>
    /\ UNCHANGED <<mode, phase, serviceVars, worker, transferVars>>

AcceptTimeout ==
    /\ daemon = "accept" /\ queue = <<>>
    /\ daemon' = "check"
    /\ UNCHANGED <<mode, phase, serviceVars, worker, queue, conn, control, call, transferVars>>

Accept ==
    /\ daemon = "accept" /\ queue # <<>>
    /\ conn' = Head(queue) /\ queue' = Tail(queue)
    /\ daemon' = "serve"
    /\ UNCHANGED <<mode, phase, serviceVars, worker, control, call, transferVars>>

\* Mutation of Handled: the deadline of a wait is not looked at
HandledWithoutDeadline(req) ==
    req \in {"wait", "wait_zero"} => transfer = "terminal"

\* A handler that returns.  The wait without a deadline polls until the
\* transfer is terminal; the wait of close() has a deadline of zero.
Handled(req) == req = "wait" => transfer = "terminal"

Effect(req) ==
    transfer' = CASE req = "submit" -> "live"
                  [] req = "report" /\ transfer = "live" -> "terminal"
                  [] OTHER -> transfer

\* One request is handled and answered; its client then closes the connection
Answer ==
    /\ daemon = "serve" /\ conn.by # "control" /\ Handled(conn.req)
    /\ \E answer \in {"ok", "error"} :
           /\ IF answer = "ok" THEN Effect(conn.req) ELSE UNCHANGED transfer
           /\ IF conn.live THEN call' = [call EXCEPT ![conn.by] = answer]
              ELSE call' = Unanswered
    /\ IF conn.live
       THEN /\ daemon' = "check" /\ conn' = None
            /\ UNCHANGED <<queue, control, record>>
       ELSE Leave /\ FailDaemon
    /\ UNCHANGED <<mode, phase, held, stop, worker, execution>>

AnswerControl ==
    /\ daemon = "serve" /\ conn.by = "control" /\ control = "asked"
    /\ control' = "held"
    /\ call' = [call EXCEPT !["session"] = "ok"]
    /\ UNCHANGED <<mode, phase, serviceVars, daemon, worker, queue, conn, transferVars>>

ControlCloses ==
    /\ daemon = "serve" /\ conn.by = "control" /\ control = None
    /\ daemon' = "check" /\ conn' = None
    /\ UNCHANGED <<mode, phase, serviceVars, worker, queue, control, call, transferVars>>

\* Any other exception that leaves the loop, or the handler and then the loop
DaemonFails ==
    /\ daemon \in {"starting", "accept", "serve"}
    /\ Leave /\ FailDaemon /\ call' = Unanswered
    /\ UNCHANGED <<mode, phase, held, stop, worker, transferVars>>

----------------------------------------------------------------------------
\* run_worker_service_process

OwnWorker == mode = "managed" \/ record["worker"] \notin {None, "attaching"}

RecordWorker(state) ==
    record' = IF OwnWorker THEN [record EXCEPT !["worker"] = state] ELSE record

\* The daemon's topology is read once, before anything is served
WorkerAsks ==
    /\ worker = "starting"
    /\ worker' = "asking"
    /\ Connect("worker", "topology")
    /\ UNCHANGED <<mode, phase, serviceVars, transferVars>>

WorkerBinds ==
    /\ worker = "asking" /\ call["worker"] = "ok"
    /\ worker' = "serving" /\ RecordWorker("initialized")
    /\ Forget("worker")
    /\ UNCHANGED <<mode, phase, held, stop, socketVars, transferVars>>

\* Without the topology, or on an exception of its own loop
WorkerFails ==
    /\ \/ worker = "asking" /\ call["worker"] = "error"
       \/ worker = "serving" /\ call["worker"] = None
    /\ worker' = "dead" /\ RecordWorker("failed")
    /\ Forget("worker")
    /\ execution' = "none"
    /\ UNCHANGED <<mode, phase, held, stop, socketVars, transfer>>

WorkerStops ==
    /\ worker = "serving" /\ stop["worker"] /\ call["worker"] = None
    /\ worker' = "dead" /\ RecordWorker("execution_pool_closed")
    /\ execution' = "none"
    /\ UNCHANGED <<mode, phase, held, stop, socketVars, call, transfer>>

\* An execution reports its end to the daemon
WorkerReports ==
    /\ worker = "serving" /\ execution = "running"
    /\ execution' = "reporting"
    /\ Connect("worker", "report")
    /\ UNCHANGED <<mode, phase, serviceVars, worker, transfer>>

WorkerReported ==
    /\ worker = "serving" /\ execution = "reporting" /\ Ended("worker")
    /\ execution' = "ended" /\ Forget("worker")
    /\ UNCHANGED <<mode, phase, serviceVars, socketVars, worker, transfer>>

----------------------------------------------------------------------------
\* Start-up

\* bootstrap_owned_runtime_services: both threads, without a wait between them
StartOwned ==
    /\ phase = "boot"
    /\ daemon' = "starting" /\ worker' = "starting"
    /\ record' = [s \in Threads |-> "starting"]
    /\ held' = Threads /\ phase' = "wait_daemon"
    /\ UNCHANGED <<mode, stop, queue, conn, control, call, transferVars>>

Failed(s) == record[s] \in {"failed", "stopped"}

\* wait_for_daemon_socket_ready: one attempt, and its end
ProbeDaemon ==
    /\ phase = "wait_daemon" /\ ~Failed("daemon")
    /\ Connect("session", "probe")
    /\ UNCHANGED <<mode, phase, serviceVars, worker, transferVars>>

ProbeFailed ==
    /\ phase = "wait_daemon" /\ call["session"] = "error"
    /\ Forget("session")
    /\ UNCHANGED <<mode, phase, serviceVars, socketVars, worker, transferVars>>

DaemonReady ==
    /\ phase = "wait_daemon" /\ call["session"] = "ok"
    /\ Forget("session")
    /\ record' = [record EXCEPT !["daemon"] = "ready"]
    /\ phase' = IF mode = "managed" THEN "wait_worker" ELSE "probe_worker"
    /\ UNCHANGED <<mode, held, stop, socketVars, worker, transferVars>>

\* _attach_or_start_worker_service: a worker that answers is left to its owner
AttachWorker ==
    /\ phase = "probe_worker" /\ worker = "serving"
    /\ phase' = "up"
    /\ UNCHANGED <<mode, serviceVars, socketVars, worker, call, transferVars>>

StartWorker ==
    /\ phase = "probe_worker" /\ worker # "serving"
    /\ worker' = "starting" /\ record' = [record EXCEPT !["worker"] = "starting"]
    /\ phase' = "wait_worker"
    /\ UNCHANGED <<mode, held, stop, socketVars, call, transferVars>>

\* wait_for_worker_socket_ready.  Only now does an attaching session hold the
\* stop event of the worker it started.
WorkerReady ==
    /\ phase = "wait_worker" /\ worker = "serving" /\ ~Failed("worker")
    /\ record' = [record EXCEPT !["worker"] = "ready"]
    /\ held' = held \cup {"worker"}
    /\ phase' = "up"
    /\ UNCHANGED <<mode, stop, socketVars, worker, call, transferVars>>

\* Mutation of ShutDown: the daemon alone is asked to stop
ShutDownDaemon(services) == [s \in Threads |-> stop[s] \/ (s = "daemon" /\ s \in services)]

\* shutdown_managed_service_threads
ShutDown(services) == [s \in Threads |-> stop[s] \/ s \in services]

\* A failure is recorded, or the deadline is over
StartupFails ==
    /\ phase \in {"wait_daemon", "wait_worker"} /\ call["session"] # "pending"
    /\ stop' = ShutDown(held)
    /\ phase' = "failed"
    /\ Forget("session")
    /\ UNCHANGED <<mode, held, record, socketVars, worker, transferVars>>

----------------------------------------------------------------------------
\* The session

\* _ensure_managed_services_alive
ServiceUp(s) ==
    \/ stop[s]
    \/ ~Failed(s) /\ IF s = "daemon" THEN Bound ELSE worker = "serving"

ServicesUp == \A s \in Threads : record[s] # None => ServiceUp(s)

\* A request over the control connection
Ask ==
    /\ control = "held" /\ call["session"] = None
    /\ control' = "asked" /\ call' = [call EXCEPT !["session"] = "pending"]
    /\ UNCHANGED <<daemon, queue, conn>>

OpenSession ==
    /\ phase = "up" /\ ServicesUp
    /\ Ask
    /\ phase' = "opening"
    /\ UNCHANGED <<mode, serviceVars, worker, transferVars>>

Opened ==
    /\ phase = "opening" /\ Ended("session")
    /\ phase' = "up" /\ Forget("session")
    /\ UNCHANGED <<mode, serviceVars, socketVars, worker, transferVars>>

Submit ==
    /\ phase = "up" /\ ServicesUp /\ execution \in {"none", "ended"}
    /\ Connect("session", "submit")
    /\ phase' = "submitting"
    /\ UNCHANGED <<mode, serviceVars, worker, transferVars>>

\* The ticket goes to the worker, unless the daemon or the worker is gone
Submitted ==
    /\ phase = "submitting" /\ Ended("session")
    /\ IF call["session"] = "ok" /\ worker = "serving"
       THEN phase' = "executing" /\ execution' = "running"
       ELSE phase' = "up" /\ UNCHANGED execution
    /\ Forget("session")
    /\ UNCHANGED <<mode, serviceVars, socketVars, worker, transfer>>

\* The execution ended and the daemon knows: wait_transfer_receipt
Executed ==
    /\ phase = "executing" /\ execution = "ended" /\ transfer = "terminal"
    /\ Connect("session", "wait")
    /\ phase' = "waiting"
    /\ UNCHANGED <<mode, serviceVars, worker, transferVars>>

ExecuteRaises ==
    /\ phase = "executing"
    /\ worker # "serving" \/ (execution = "ended" /\ transfer # "terminal")
    /\ phase' = "up"
    /\ UNCHANGED <<mode, serviceVars, socketVars, worker, call, transferVars>>

\* wait_transfer_receipt of an intent whose submission raised
EarlyWait ==
    /\ EarlyWaits /\ phase = "up" /\ transfer = "live"
    /\ Connect("session", "wait")
    /\ phase' = "waiting"
    /\ UNCHANGED <<mode, serviceVars, worker, transferVars>>

Waited ==
    /\ phase = "waiting" /\ Ended("session")
    /\ phase' = "up" /\ Forget("session")
    /\ UNCHANGED <<mode, serviceVars, socketVars, worker, transferVars>>

\* close(): the receipt of a live intent and the cleanup of buffers, or the
\* session alone when there is none of them
Close ==
    /\ phase = "up"
    /\ \/ Connect("session", IF transfer = "live" THEN "wait_zero" ELSE "cleanup")
       \/ transfer # "live" /\ Ask
    /\ phase' = "closing"
    /\ UNCHANGED <<mode, serviceVars, worker, transferVars>>

\* _stop_owned_services.  The update of the worker's record raises a NameError
\* (runtime_session.py:2455): nothing after it is done.
StopOwned ==
    /\ phase = "closing" /\ Ended("session")
    /\ Forget("session") /\ control' = None
    /\ IF "worker" \in held
       THEN stop' = [stop EXCEPT !["worker"] = TRUE] /\ phase' = "up"
       ELSE phase' = "closed" /\ UNCHANGED stop
    /\ UNCHANGED <<mode, held, record, daemon, queue, conn, worker, transferVars>>

----------------------------------------------------------------------------
DaemonSteps ==
    \/ DaemonBinds \/ LoopCheck \/ AcceptTimeout \/ Accept
    \/ Answer \/ AnswerControl \/ ControlCloses

WorkerSteps ==
    \/ WorkerAsks \/ WorkerBinds \/ WorkerStops \/ WorkerReports \/ WorkerReported

StartSteps ==
    \/ StartOwned \/ ProbeDaemon \/ ProbeFailed \/ DaemonReady
    \/ AttachWorker \/ StartWorker \/ WorkerReady \/ StartupFails

SessionSteps ==
    \/ OpenSession \/ Opened \/ Submit \/ Submitted \/ Executed \/ ExecuteRaises
    \/ EarlyWait \/ Waited \/ Close \/ StopOwned

Next ==
    \/ DaemonSteps \/ WorkerSteps \/ StartSteps \/ SessionSteps
    \/ DaemonFails \/ WorkerFails \/ OtherCalls
    \/ \E c \in Clients : GiveUp(c)

\* The services' threads run; a worker whose question failed leaves.
Fairness ==
    /\ WF_vars(DaemonSteps) /\ WF_vars(WorkerSteps)
    /\ WF_vars(worker = "asking" /\ WorkerFails)

Spec == Init /\ [][Next]_vars /\ Fairness

----------------------------------------------------------------------------
\* Properties

\* What keeps the daemon from every other client
Occupied ==
    /\ daemon = "serve"
    /\ conn.by = "control" \/ (conn.req = "wait" /\ transfer = "live")

\* A client that called the daemon gets an answer or an exception, unless the
\* daemon stays with a control connection, or with a wait for a transfer whose
\* end it is never told (server.py:8380-8449, 1887-1922; client.py:22-47).
CallsReturn ==
    \A c \in Clients : call[c] = "pending" ~> (call[c] # "pending" \/ []Occupied)

\* A managed start-up that fails leaves no thread behind
\* (managed_services.py:158-190, 609-627).
FailedStartIsUndone ==
    mode = "managed" /\ phase = "failed" ~> daemon = "dead" /\ worker = "dead"

====
