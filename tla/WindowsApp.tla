----------------------------- MODULE WindowsApp -----------------------------
(***************************************************************************)
(* The Windows program: the GUI (AnyPlugApp in main.rs) with its           *)
(* ServerController (actions.rs), and the Windows service, which run a     *)
(* server each on the same port.                                           *)
(*                                                                         *)
(* The thread of ServerController::start polls, in an order that select!   *)
(* picks at random, server.run() and wait_for_shutdown.  The second one    *)
(* does not await: it blocks the thread in rx.recv().  So server.run() is  *)
(* polled once at most before the shutdown signal.                         *)
(***************************************************************************)
EXTENDS Naturals

CONSTANTS Peer,        \* USB/IP clients
          MaxStarts    \* bound on clicks on Start Server

ASSUME WindowsAssumption == MaxStarts \in Nat \ {0}

VARIABLES
    running,    \* ServerController.running
    tx,         \* the thread whose shutdown_tx the controller holds, or 0
    starts,     \* threads spawned
    thread,     \* new (in Server::new), select (nothing polled), bound (in the
                \* first poll of server.run), recv (in rx.recv) or ended
    signal,     \* threads with a () in their channel
    service,    \* the Windows service: stopped, running
    svcThread,  \* its thread: none, new, serving, ended
    port,       \* who listens on the port: a thread, Service, or Nobody
    peer        \* a client: away, queued at the listener, served

windowsVars == <<running, tx, starts, thread, signal, service, svcThread, port, peer>>

Thread == 1..MaxStarts
Nobody == 0
Service == MaxStarts + 1

WindowsTypeOK ==
    /\ running \in BOOLEAN /\ tx \in Thread \cup {0} /\ starts \in 0..MaxStarts
    /\ thread \in [Thread -> {"none", "new", "select", "bound", "recv", "ended"}]
    /\ signal \subseteq Thread
    /\ service \in {"stopped", "running"}
    /\ svcThread \in {"none", "new", "serving", "ended"}
    /\ port \in Thread \cup {Nobody, Service}
    /\ peer \in [Peer -> {"away", "queued", "served"}]

WindowsInit ==
    /\ running = FALSE /\ tx = 0 /\ starts = 0
    /\ thread = [t \in Thread |-> "none"] /\ signal = {}
    /\ service = "stopped" /\ svcThread = "none"
    /\ port = Nobody /\ peer = [c \in Peer |-> "away"]

(***************************************************************************)
(* The GUI                                                                 *)
(***************************************************************************)
\* Mutant: neither the GUI nor start looks at running.
MutStart ==
    /\ starts < MaxStarts
    /\ starts' = starts + 1 /\ tx' = starts'
    /\ thread' = [thread EXCEPT ![starts'] = "new"]
    /\ running' = TRUE
    /\ UNCHANGED <<signal, service, svcThread, port, peer>>

\* start_server and ServerController::start.
Start ==
    /\ ~running /\ starts < MaxStarts
    /\ starts' = starts + 1 /\ tx' = starts'
    /\ thread' = [thread EXCEPT ![starts'] = "new"]
    /\ running' = TRUE
    /\ UNCHANGED <<signal, service, svcThread, port, peer>>

\* Mutant: a stop that finds no sender signals all the same.
MutStop ==
    /\ running' = FALSE
    /\ tx' = 0 /\ signal' = signal \cup {tx}
    /\ UNCHANGED <<starts, thread, service, svcThread, port, peer>>

\* ServerController::stop: the signal waits in the channel for the thread.
Stop ==
    /\ running
    /\ running' = FALSE
    /\ tx' = 0 /\ signal' = signal \cup {tx}
    /\ UNCHANGED <<starts, thread, service, svcThread, port, peer>>

(***************************************************************************)
(* The thread of the controller                                            *)
(***************************************************************************)
\* A listener that is dropped resets its connections, and a runtime that is
\* dropped ends its tasks.
Close(o) ==
    /\ port' = IF port = o THEN Nobody ELSE port
    /\ peer' = IF port = o THEN [c \in Peer |-> "away"] ELSE peer

\* Server::new: a USB library that cannot be used ends the thread.
NewServer(t) ==
    /\ thread[t] = "new"
    /\ \E s \in {"select", "ended"} : thread' = [thread EXCEPT ![t] = s]
    /\ UNCHANGED <<running, tx, starts, signal, service, svcThread, port, peer>>

\* The first poll of server.run: bind, and mdns.start, which may fail.
PollRun(t) ==
    /\ thread[t] = "select" /\ port = Nobody
    /\ \/ port' = t /\ thread' = [thread EXCEPT ![t] = "bound"]
       \/ port' = port /\ thread' = [thread EXCEPT ![t] = "ended"]
    /\ UNCHANGED <<running, tx, starts, signal, service, svcThread, peer>>

\* The port is taken: the error is logged, and the controller is not told.
BindFails(t) ==
    /\ thread[t] = "select" /\ port # Nobody
    /\ thread' = [thread EXCEPT ![t] = "ended"]
    /\ UNCHANGED <<running, tx, starts, signal, service, svcThread, port, peer>>

\* In that poll a client that is already there is accepted.
AcceptAtOnce(t, c) ==
    /\ thread[t] = "bound" /\ peer[c] = "queued"
    /\ peer' = [peer EXCEPT ![c] = "served"]
    /\ UNCHANGED <<running, tx, starts, thread, signal, service, svcThread, port>>

\* wait_for_shutdown is polled, first or when server.run has to wait.
PollWait(t) ==
    /\ thread[t] \in {"select", "bound"}
    /\ thread' = [thread EXCEPT ![t] = "recv"]
    /\ UNCHANGED <<running, tx, starts, signal, service, svcThread, port, peer>>

\* Mutant: the server goes on without its select!.
MutRecvSignal(t) ==
    /\ thread[t] = "recv" /\ t \in signal
    /\ thread' = [thread EXCEPT ![t] = "ended"]
    /\ UNCHANGED <<running, tx, starts, signal, service, svcThread, port, peer>>

\* recv has the signal: select! ends, and the server and the runtime are dropped.
RecvSignal(t) ==
    /\ thread[t] = "recv" /\ t \in signal
    /\ thread' = [thread EXCEPT ![t] = "ended"]
    /\ Close(t)
    /\ UNCHANGED <<running, tx, starts, signal, service, svcThread>>

(***************************************************************************)
(* The service (my_service_main)                                           *)
(***************************************************************************)
\* Running is reported, and then the server is started.
ServiceStarts ==
    /\ service = "stopped"
    /\ service' = "running" /\ svcThread' = "new"
    /\ UNCHANGED <<running, tx, starts, thread, signal, port, peer>>

\* Server::new and run: on any error the thread ends, and the service goes on.
ServiceRuns ==
    /\ svcThread = "new"
    /\ \/ port = Nobody /\ port' = Service /\ svcThread' = "serving"
       \/ svcThread' = "ended" /\ UNCHANGED port
    /\ UNCHANGED <<running, tx, starts, thread, signal, service, peer>>

ServiceAccepts(c) ==
    /\ svcThread = "serving" /\ peer[c] = "queued"
    /\ peer' = [peer EXCEPT ![c] = "served"]
    /\ UNCHANGED <<running, tx, starts, thread, signal, service, svcThread, port>>

\* Stop or Shutdown is received; the process ends, with its thread.
ServiceStops ==
    /\ service = "running"
    /\ service' = "stopped" /\ svcThread' = "none"
    /\ Close(Service)
    /\ UNCHANGED <<running, tx, starts, thread, signal>>

(***************************************************************************)
(* Clients                                                                 *)
(***************************************************************************)
\* The listener's queue takes a connection before anybody accepts it.
PeerConnects(c) ==
    /\ peer[c] = "away" /\ port # Nobody
    /\ peer' = [peer EXCEPT ![c] = "queued"]
    /\ UNCHANGED <<running, tx, starts, thread, signal, service, svcThread, port>>

PeerLeaves(c) ==
    /\ peer[c] # "away"
    /\ peer' = [peer EXCEPT ![c] = "away"]
    /\ UNCHANGED <<running, tx, starts, thread, signal, service, svcThread, port>>

ThreadStep(t) ==
    \/ NewServer(t) \/ PollRun(t) \/ BindFails(t)
    \/ PollWait(t) \/ RecvSignal(t)
    \/ \E c \in Peer : AcceptAtOnce(t, c)

WindowsNext ==
    \/ Start \/ Stop \/ ServiceStarts \/ ServiceRuns \/ ServiceStops
    \/ \E t \in Thread : ThreadStep(t)
    \/ \E c \in Peer : ServiceAccepts(c) \/ PeerConnects(c) \/ PeerLeaves(c)

WindowsSpec == WindowsInit /\ [][WindowsNext]_windowsVars

-----------------------------------------------------------------------------
\* "If a previous start call did not finish, this returns an error without
\* spawning a second thread": a thread that is not told to stop is the one the
\* controller can tell.
ThreadsCanBeStopped ==
    \A t \in Thread : thread[t] \notin {"none", "ended"} /\ t \notin signal => t = tx

\* stop: every thread but the one in charge ends, whatever it was doing when
\* the signal came, and gives up the port.
StopEndsThread ==
    \A t \in Thread :
        (t <= starts /\ t # tx) ~> (thread[t] = "ended" /\ port # t)

\* "Race the server loop against the shutdown signal": a client that waits at
\* the port of a running server is served, unless it or the server goes away.
QueuedIsServed ==
    \A c \in Peer : (peer[c] = "queued") ~> (peer[c] # "queued")

=============================================================================
