---------------------------- MODULE EventStream -----------------------------
(***************************************************************************)
(* WS /api/events (ws_events and handle_ws of api.rs) and a page that uses *)
(* it (useWebSocket.ts, LatencyDashboard.tsx).  The page has one socket at *)
(* a time, but the server's task of an old one may still run.  A sample is *)
(* its number; the messages of a socket arrive in order.                   *)
(***************************************************************************)
EXTENDS Naturals, Sequences

CONSTANTS
    Slot,          \* WebSockets, used again once both ends are done with them
    Capacity,      \* LATENCY_CHANNEL_CAPACITY
    Window,        \* MAX_SAMPLES
    MaxSamples,    \* bound on the samples of a run
    NoSlot

ASSUME EventAssumption ==
    /\ Capacity \in Nat \ {0}   \* broadcast::channel panics for 0
    /\ Window \in Nat /\ MaxSamples \in Nat /\ NoSlot \notin Slot

VARIABLES
    serving,    \* the server runs and can be reached
    count,      \* samples sent to latency_tx
    task,       \* handle_ws of a socket runs
    next,       \* the next sample of its receiver
    wire,       \* messages on their way to the page
    mounted,    \* the hook's effect is mounted
    ws,         \* wsRef.current
    ready,      \* readyState of each socket
    timer,      \* the reconnect timer is set
    samples     \* the dashboard's samples

eventVars == <<serving, count, task, next, wire, mounted, ws, ready, timer,
               samples>>
page == <<mounted, ws, ready, timer>>

EventTypeOK ==
    /\ serving \in BOOLEAN /\ count \in 0..MaxSamples
    /\ task \in [Slot -> BOOLEAN] /\ next \in [Slot -> 1..MaxSamples + 1]
    /\ wire \in [Slot -> Seq(1..MaxSamples)]
    /\ mounted \in BOOLEAN /\ timer \in BOOLEAN
    /\ ws \in Slot \cup {NoSlot}
    /\ ready \in [Slot -> {"CONNECTING", "OPEN", "CLOSED"}]
    /\ samples \in Seq(1..MaxSamples)

EventInit ==
    /\ serving = TRUE /\ count = 0
    /\ task = [s \in Slot |-> FALSE] /\ next = [s \in Slot |-> 1]
    /\ wire = [s \in Slot |-> <<>>]
    /\ mounted = TRUE /\ ws = NoSlot /\ timer = TRUE
    /\ ready = [s \in Slot |-> "CLOSED"]
    /\ samples = <<>>

(***************************************************************************)
(* The page                                                                *)
(***************************************************************************)
\* connect, from the effect or from the timer.  (With no server URL stored the
\* constructor throws and the timer is set again; the URL is there.)
ConnectEvents(s) ==
    /\ mounted /\ timer
    /\ ready[s] = "CLOSED" /\ ~task[s]
    /\ timer' = FALSE
    /\ ws' = s
    /\ ready' = [ready EXCEPT ![s] = "CONNECTING"]
    /\ wire' = [wire EXCEPT ![s] = <<>>]
    /\ UNCHANGED <<serving, count, task, next, mounted, samples>>

\* onmessage: the dashboard keeps the latest samples.
Recent(q, n) == SubSeq(q, IF Len(q) > n THEN Len(q) - n + 1 ELSE 1, Len(q))

OnMessage(s) ==
    /\ ready[s] = "OPEN" /\ wire[s] # <<>>
    /\ wire' = [wire EXCEPT ![s] = Tail(@)]
    /\ samples' = IF mounted THEN Recent(Append(samples, Head(wire[s])), Window)
                  ELSE samples
    /\ UNCHANGED <<serving, count, task, next, page>>

\* Mutant: the timer is set only when an open connection is lost.
MutOnClose(s) ==
    /\ ready[s] # "CLOSED"
    /\ ready[s] = "CONNECTING" => ~serving
    /\ ready' = [ready EXCEPT ![s] = "CLOSED"]
    /\ wire' = [wire EXCEPT ![s] = <<>>]
    /\ timer' = (mounted /\ ready[s] = "OPEN")
    /\ UNCHANGED <<serving, count, task, next, mounted, ws, samples>>

\* onclose, whether the connection was refused, lost or closed by the server.
OnClose(s) ==
    /\ ready[s] # "CLOSED"
    /\ ready[s] = "CONNECTING" => ~serving
    /\ ready' = [ready EXCEPT ![s] = "CLOSED"]
    /\ wire' = [wire EXCEPT ![s] = <<>>]
    /\ timer' = mounted
    /\ UNCHANGED <<serving, count, task, next, mounted, ws, samples>>

\* Mutant: the effect's clean-up only clears the timer.
MutUnmount ==
    /\ mounted
    /\ mounted' = FALSE /\ timer' = FALSE
    /\ UNCHANGED <<serving, count, task, next, wire, ws, ready, samples>>

\* The effect's clean-up: the timer is cleared, the current socket closed.
Unmount ==
    /\ mounted
    /\ mounted' = FALSE /\ timer' = FALSE
    /\ ready' = [s \in Slot |-> IF s = ws THEN "CLOSED" ELSE ready[s]]
    /\ UNCHANGED <<serving, count, task, next, wire, ws, samples>>

(***************************************************************************)
(* The server                                                              *)
(***************************************************************************)
\* Mutant: the receiver begins with the first sample of the channel.
MutUpgrade(s) ==
    /\ serving /\ ready[s] = "CONNECTING"
    /\ ready' = [ready EXCEPT ![s] = "OPEN"]
    /\ task' = [task EXCEPT ![s] = TRUE]
    /\ next' = [next EXCEPT ![s] = 1]
    /\ UNCHANGED <<serving, count, wire, mounted, ws, timer, samples>>

\* on_upgrade: handle_ws greets, and subscribes to the samples from now on.
Upgrade(s) ==
    /\ serving /\ ready[s] = "CONNECTING"
    /\ ready' = [ready EXCEPT ![s] = "OPEN"]
    /\ task' = [task EXCEPT ![s] = TRUE]
    /\ next' = [next EXCEPT ![s] = count + 1]
    /\ UNCHANGED <<serving, count, wire, mounted, ws, timer, samples>>

\* A sample is sent to latency_tx.
SendSample ==
    /\ serving /\ count < MaxSamples
    /\ count' = count + 1
    /\ UNCHANGED <<serving, task, next, wire, page, samples>>

\* recv: a receiver that has fallen behind goes on with the oldest sample kept.
Recv(s) ==
    /\ task[s] /\ next[s] <= count
    /\ LET n == IF next[s] + Capacity <= count THEN count + 1 - Capacity
                ELSE next[s]
       IN  /\ next' = [next EXCEPT ![s] = n + 1]
           /\ wire' = [wire EXCEPT ![s] = IF ready[s] = "OPEN" THEN Append(@, n)
                                          ELSE @]
    /\ UNCHANGED <<serving, count, task, page, samples>>

\* The task sees Close, an error, or cannot send: it ends.
EndWs(s) ==
    /\ task[s] /\ ready[s] = "CLOSED"
    /\ task' = [task EXCEPT ![s] = FALSE]
    /\ UNCHANGED <<serving, count, next, wire, page, samples>>

\* The server stops with all its tasks, and starts.
ServerStops ==
    /\ serving
    /\ serving' = FALSE
    /\ task' = [s \in Slot |-> FALSE]
    /\ UNCHANGED <<count, next, wire, page, samples>>

ServerStarts ==
    /\ ~serving
    /\ serving' = TRUE
    /\ UNCHANGED <<count, task, next, wire, page, samples>>

EventNext ==
    \/ Unmount \/ SendSample \/ ServerStops \/ ServerStarts
    \/ \E s \in Slot : \/ ConnectEvents(s) \/ OnMessage(s) \/ OnClose(s)
                       \/ Upgrade(s) \/ Recv(s) \/ EndWs(s)

EventSpec == EventInit /\ [][EventNext]_eventVars

\* Timers fire, sockets open or fail, and closed sockets are noticed: handle_ws has
\* no keepalive, so that the server hears of a lost page is assumed of TCP.
EventProgress(s) ==
    \/ ConnectEvents(s) \/ Upgrade(s) \/ EndWs(s)
    \/ OnClose(s) /\ ~serving

-----------------------------------------------------------------------------
\* Over any losses, lags and reconnects, the dashboard shows samples in the
\* order in which they were measured and none twice.
SamplesInOrder ==
    \A i, j \in 1..Len(samples) : i < j => samples[i] < samples[j]

\* A mounted page has a socket that it takes for open again whenever the server is
\* there for long enough.  Whether a task still serves that socket is not said.
EventsReconnect ==
    (mounted /\ serving) ~>
        (\/ ~mounted \/ ~serving
         \/ \E s \in Slot : ready[s] = "OPEN")

\* A page that has gone leaves no task behind on the server, once the server hears
\* that its socket is closed.
UnmountEndsTask == ~mounted ~> \A s \in Slot : ~task[s]

=============================================================================
