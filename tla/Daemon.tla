------------------------------- MODULE Daemon -------------------------------
(***************************************************************************)
(* The client daemon (daemon.rs): commands from CLI connections, the list  *)
(* of managed connections, one auto_connect_loop per entry, and the task   *)
(* that Client::import_device spawns beside it (client.rs).                *)
(*                                                                         *)
(* The list is only touched under its mutex and never across an await, so  *)
(* a locked section is one step.  A server admits one forwarder per device *)
(* (ExportServer, ExclusiveSession) and may refuse any request.  The       *)
(* daemon's client has auto_reconnect off; the loops retry without limit.  *)
(***************************************************************************)
EXTENDS Naturals, Sequences, SequenceOps

CONSTANTS Target,    \* server and busid of a connection
          BusidOf,   \* the busid of a target
          Handler,   \* CLI connections, each with one command at a time
          Task,      \* identities of the tasks of a successful Connect
          NumPorts,  \* ports of the virtual host controller
          None       \* no target, no task

ASSUME DaemonAssumption ==
    /\ DOMAIN BusidOf = Target
    /\ NumPorts \in Nat
    /\ None \notin Target \cup Task

VARIABLES
    daemon,      \* starting, running, stopped, or panicked
    configured,  \* the config file lists connections
    shutdown,    \* shutdown_token is cancelled
    conns,       \* DaemonManager.connections
    hpc,         \* the command each CLI connection is at
    htarget,     \* the target of its Connect
    htask,       \* the tasks of its import
    lpc,         \* auto_connect_loop of a task
    bpc,         \* the task import_device spawned
    ttarget,     \* the target of both
    cancelled,   \* the loop's cancel_token is cancelled
    ports        \* attached ports

vars == <<daemon, configured, shutdown, conns, hpc, htarget, htask, lpc, bpc,
          ttarget, cancelled, ports>>
handlers == <<hpc, htarget, htask>>
process == <<daemon, configured, shutdown>>

LoopPC == {"none", "pause", "connect", "import", "imported", "open",
           "forward", "failed", "backoff", "done"}
ConnState == {"Connecting", "Connected", "Error"}

Entry == [target : Target, state : ConnState, task : Task, by : Handler]

TypeOK ==
    /\ daemon \in {"starting", "running", "stopped", "panicked"}
    /\ configured \in BOOLEAN
    /\ shutdown \in BOOLEAN
    /\ conns \in Seq(Entry)
    /\ hpc \in [Handler -> {"idle", "checked", "imported"}]
    /\ htarget \in [Handler -> Target \cup {None}]
    /\ htask \in [Handler -> Task \cup {None}]
    /\ lpc \in [Task -> LoopPC]
    /\ bpc \in [Task -> {"none", "open", "forward", "done"}]
    /\ ttarget \in [Task -> Target \cup {None}]
    /\ cancelled \in [Task -> BOOLEAN]
    /\ ports \in 0..NumPorts

Init ==
    /\ daemon = "starting"
    /\ configured \in BOOLEAN
    /\ shutdown = FALSE
    /\ conns = <<>>
    /\ hpc = [h \in Handler |-> "idle"]
    /\ htarget = [h \in Handler |-> None]
    /\ htask = [h \in Handler |-> None]
    /\ lpc = [t \in Task |-> "none"]
    /\ bpc = [t \in Task |-> "none"]
    /\ ttarget = [t \in Task |-> None]
    /\ cancelled = [t \in Task |-> FALSE]
    /\ ports = 0

(***************************************************************************)
(* The process                                                             *)
(***************************************************************************)
\* run binds the socket and starts the configured connections.  Inside the
\* runtime, the blocking_lock of start_auto_connect panics.
Run ==
    /\ daemon = "starting"
    /\ daemon' = IF configured THEN "panicked" ELSE "running"
    /\ UNCHANGED <<configured, shutdown, conns, handlers, lpc, bpc, ttarget,
                   cancelled, ports>>

\* run returns, and the process ends with all its tasks.
Exit ==
    /\ daemon = "running"
    /\ shutdown
    /\ daemon' = "stopped"
    /\ UNCHANGED <<configured, shutdown, conns, handlers, lpc, bpc, ttarget,
                   cancelled, ports>>

(***************************************************************************)
(* What the server and the host controller answer                          *)
(***************************************************************************)
Forwards(i) == lpc[i] = "forward" \/ bpc[i] = "forward"

ServerAdmits(t) == \A i \in Task : ttarget[i] = t => ~Forwards(i)

\* Mutant: a port is taken whether or not one is free.
MutAttach == ports' = ports + 1

\* create_device attaches the first free port, and fails when there is none.
\* No port is ever detached.
Attach ==
    /\ ports < NumPorts
    /\ ports' = ports + 1

(***************************************************************************)
(* handle_command                                                          *)
(***************************************************************************)
CommandDone(h) ==
    /\ hpc' = [hpc EXCEPT ![h] = "idle"]
    /\ htarget' = [htarget EXCEPT ![h] = None]
    /\ htask' = [htask EXCEPT ![h] = None]

Managing(t) == \E i \in 1..Len(conns) : conns[i].target = t

\* Mutant: the list is not looked at.
MutConnectCheck(h, t) ==
    /\ hpc[h] = "idle"
    /\ hpc' = [hpc EXCEPT ![h] = "checked"]
    /\ htarget' = [htarget EXCEPT ![h] = t]
    /\ UNCHANGED <<process, conns, htask, lpc, bpc, ttarget, cancelled, ports>>

\* Connect: the list is looked at, and unlocked.
ConnectCheck(h, t) ==
    /\ hpc[h] = "idle"
    /\ ~Managing(t)
    /\ hpc' = [hpc EXCEPT ![h] = "checked"]
    /\ htarget' = [htarget EXCEPT ![h] = t]
    /\ UNCHANGED <<process, conns, htask, lpc, bpc, ttarget, cancelled, ports>>

\* No task or entry has the identity any more.
Unused(i) ==
    /\ lpc[i] \in {"none", "done"}
    /\ bpc[i] \in {"none", "done"}
    /\ \A j \in 1..Len(conns) : conns[j].task # i
    /\ \A h \in Handler : htask[h] # i

\* import_device has attached the device and spawned its forwarding task.
ConnectImported(h, i) ==
    /\ hpc[h] = "checked"
    /\ Unused(i)
    /\ ServerAdmits(htarget[h])
    /\ Attach
    /\ hpc' = [hpc EXCEPT ![h] = "imported"]
    /\ htask' = [htask EXCEPT ![h] = i]
    /\ lpc' = [lpc EXCEPT ![i] = "none"]
    /\ bpc' = [bpc EXCEPT ![i] = "open"]
    /\ ttarget' = [ttarget EXCEPT ![i] = htarget[h]]
    /\ cancelled' = [cancelled EXCEPT ![i] = FALSE]
    /\ UNCHANGED <<process, conns, htarget>>

ConnectFails(h) ==
    /\ hpc[h] = "checked"
    /\ CommandDone(h)
    /\ UNCHANGED <<process, conns, lpc, bpc, ttarget, cancelled, ports>>

\* The entry is pushed, and the loop is spawned.
ConnectManaged(h) ==
    /\ hpc[h] = "imported"
    /\ conns' = Append(conns, [target |-> htarget[h], state |-> "Connected",
                               task |-> htask[h], by |-> h])
    /\ lpc' = [lpc EXCEPT ![htask[h]] = "pause"]
    /\ CommandDone(h)
    /\ UNCHANGED <<process, bpc, ttarget, cancelled, ports>>

\* Position of the first entry that satisfies P, as iter().position finds it.
IsFirst(p, P(_)) ==
    /\ P(conns[p])
    /\ \A q \in 1..p-1 : ~P(conns[q])

\* Mutant: the entry is dropped and its token is not cancelled.
MutDisconnect(h, b) ==
    /\ hpc[h] = "idle"
    /\ \E p \in 1..Len(conns) :
         /\ IsFirst(p, LAMBDA e : BusidOf[e.target] = b)
         /\ conns' = RemoveAt(conns, p)
    /\ UNCHANGED <<process, handlers, lpc, bpc, ttarget, cancelled, ports>>

\* Disconnect takes the first entry with the busid, of whichever server.
Disconnect(h, b) ==
    /\ hpc[h] = "idle"
    /\ \E p \in 1..Len(conns) :
         /\ IsFirst(p, LAMBDA e : BusidOf[e.target] = b)
         /\ conns' = RemoveAt(conns, p)
         /\ cancelled' = [cancelled EXCEPT ![conns[p].task] = TRUE]
    /\ UNCHANGED <<process, handlers, lpc, bpc, ttarget, ports>>

Shutdown(h) ==
    /\ hpc[h] = "idle"
    /\ shutdown' = TRUE
    /\ UNCHANGED <<daemon, configured, conns, handlers, lpc, bpc, ttarget,
                   cancelled, ports>>

(***************************************************************************)
(* auto_connect_loop                                                       *)
(***************************************************************************)
LoopOnly(i, label) ==
    /\ lpc' = [lpc EXCEPT ![i] = label]
    /\ UNCHANGED <<process, handlers, bpc, ttarget, cancelled>>

\* Mutant: the token is not among the branches that are ready at once.
MutSelect(i, label) == LoopOnly(i, IF shutdown THEN "done" ELSE label)

\* A select! whose tokens are cancelled already returns at its first poll.
Select(i, label) ==
    LoopOnly(i, IF cancelled[i] \/ shutdown THEN "done" ELSE label)

\* The state is written to the first entry with the loop's target, if any.
SetState(i, s) ==
    conns' = [p \in DOMAIN conns |->
                IF IsFirst(p, LAMBDA e : e.target = ttarget[i])
                THEN [conns[p] EXCEPT !.state = s] ELSE conns[p]]

\* Mutant: only the shutdown token is looked at.
MutLoopInterrupted(i) ==
    /\ lpc[i] \in {"pause", "open", "forward", "backoff"}
    /\ shutdown
    /\ LoopOnly(i, "done")
    /\ UNCHANGED <<conns, ports>>

\* A token is cancelled while the loop waits in a select!.
LoopInterrupted(i) ==
    /\ lpc[i] \in {"pause", "open", "forward", "backoff"}
    /\ cancelled[i] \/ shutdown
    /\ LoopOnly(i, "done")
    /\ UNCHANGED <<conns, ports>>

\* The 100 ms are over.  When a token is cancelled in that moment as well,
\* select! takes either branch.
LoopPauseOver(i) ==
    /\ lpc[i] = "pause"
    /\ LoopOnly(i, "connect")
    /\ UNCHANGED <<conns, ports>>

LoopConnecting(i) ==
    /\ lpc[i] = "connect"
    /\ SetState(i, "Connecting")
    /\ LoopOnly(i, "import")
    /\ UNCHANGED ports

\* import_device_once succeeds, with one more virtual device.
LoopImported(i) ==
    /\ lpc[i] = "import"
    /\ ServerAdmits(ttarget[i])
    /\ Attach
    /\ LoopOnly(i, "imported")
    /\ UNCHANGED conns

LoopImportFails(i) ==
    /\ lpc[i] = "import"
    /\ LoopOnly(i, "failed")
    /\ UNCHANGED <<conns, ports>>

\* Connected, and on to run_urb_forwarding.
LoopConnected(i) ==
    /\ lpc[i] = "imported"
    /\ SetState(i, "Connected")
    /\ Select(i, "open")
    /\ UNCHANGED ports

LoopForwards(i) ==
    /\ lpc[i] = "open"
    /\ ServerAdmits(ttarget[i])
    /\ LoopOnly(i, "forward")
    /\ UNCHANGED <<conns, ports>>

\* run_urb_forwarding returns an error.
LoopForwardFails(i) ==
    /\ lpc[i] \in {"open", "forward"}
    /\ LoopOnly(i, "failed")
    /\ UNCHANGED <<conns, ports>>

\* run_urb_forwarding returns Ok, as it does when the connection is lost: the
\* loop ends, and its entry stays.
LoopForwardEnds(i) ==
    /\ lpc[i] = "forward"
    /\ LoopOnly(i, "done")
    /\ UNCHANGED <<conns, ports>>

\* Error, and decide_reconnect on ConnectionClosed: transient, whatever failed.
LoopError(i) ==
    /\ lpc[i] = "failed"
    /\ SetState(i, "Error")
    /\ Select(i, "backoff")
    /\ UNCHANGED ports

LoopBackoffOver(i) ==
    /\ lpc[i] = "backoff"
    /\ Select(i, "pause")
    /\ UNCHANGED <<conns, ports>>

(***************************************************************************)
(* The task of import_device, with auto_reconnect off                      *)
(***************************************************************************)
TaskForwards(i) ==
    /\ bpc[i] = "open"
    /\ ServerAdmits(ttarget[i])
    /\ bpc' = [bpc EXCEPT ![i] = "forward"]
    /\ UNCHANGED <<process, conns, handlers, lpc, ttarget, cancelled, ports>>

\* An error and a clean end both leave the loop.
TaskEnds(i) ==
    /\ bpc[i] \in {"open", "forward"}
    /\ bpc' = [bpc EXCEPT ![i] = "done"]
    /\ UNCHANGED <<process, conns, handlers, lpc, ttarget, cancelled, ports>>

-----------------------------------------------------------------------------
Command(h) ==
    \/ \E t \in Target : ConnectCheck(h, t)
    \/ \E i \in Task : ConnectImported(h, i)
    \/ ConnectFails(h)
    \/ ConnectManaged(h)
    \/ \E b \in {BusidOf[t] : t \in Target} : Disconnect(h, b)
    \/ Shutdown(h)

\* What the loop does by itself: sleeps end, tokens wake it, locks are granted.
LoopMoves(i) ==
    \/ LoopInterrupted(i) \/ LoopPauseOver(i) \/ LoopConnecting(i)
    \/ LoopConnected(i) \/ LoopError(i) \/ LoopBackoffOver(i)

\* What it waits for outside: import_device_once has no timeout and is in no
\* select!, and the forwarding goes on for as long as the peer likes.
LoopHears(i) ==
    \/ LoopImported(i) \/ LoopImportFails(i)
    \/ LoopForwards(i) \/ LoopForwardFails(i) \/ LoopForwardEnds(i)

Next ==
    \/ Run
    \/ Exit
    \/ /\ daemon = "running"
       /\ \/ \E h \in Handler : Command(h)
          \/ \E i \in Task : \/ LoopMoves(i) \/ LoopHears(i)
                             \/ TaskForwards(i) \/ TaskEnds(i)

Spec == Init /\ [][Next]_vars

\* Ready tasks are polled and sleeps end.  Nothing is assumed of servers: an
\* import may stay unanswered for ever.
FairSpec ==
    /\ Spec
    /\ WF_vars(Run) /\ WF_vars(Exit)
    /\ \A i \in Task : WF_vars(daemon = "running" /\ LoopMoves(i))

-----------------------------------------------------------------------------
(***************************************************************************)
(* Properties                                                              *)
(***************************************************************************)
Alive(i) == lpc[i] \notin {"none", "done"}

\* A loop that runs with a live token can be reached by Disconnect: exactly
\* one entry holds its token.  A cancelled token has left the list.  Which of the
\* entries of one busid a Disconnect takes is not said.
RunningIsManaged ==
    \A i \in Task :
        LET held == {p \in 1..Len(conns) : conns[p].task = i} IN
        /\ Alive(i) /\ ~cancelled[i] => \E p \in held : held = {p}
        /\ held # {} => ~cancelled[i]

\* The check of Connect and its push are separate steps, so concurrent commands can
\* give one target two entries; those of the same CLI connection never do.
DuplicatesAreConcurrent ==
    \A p, q \in 1..Len(conns) :
        conns[p].target = conns[q].target /\ conns[p].by = conns[q].by => p = q

\* After Disconnect a loop winds down: the import it is in, or that starts in the
\* moment of the command, is its last one, no connection for URBs is opened
\* after it, and nothing is retried.  A run_urb_forwarding that was opening its
\* connection may still come up before the select! sees the token.
CancelledWindsDown ==
    [][\A i \in Task :
          cancelled[i] /\ cancelled'[i] =>
              /\ lpc'[i] \in {"open", "backoff", "pause"} => lpc'[i] = lpc[i]
              /\ lpc'[i] = "forward" => lpc[i] \in {"open", "forward"}]_vars

\* The loop of a disconnected entry ends, wherever Disconnect met it, or hangs
\* in an import that the server neither answers nor closes.
CancelledLoopEnds ==
    \A i \in Task :
        cancelled[i] ~> \/ lpc[i] \in {"none", "done"} \/ daemon = "stopped"
                        \/ [](lpc[i] = "import")

\* daemon.rs: "Disconnect an imported device."  The tasks of a disconnected
\* entry stop to forward URBs, as the answer to the command says.
DisconnectStopsForwarding ==
    \A i \in Task :
        cancelled[i] ~> (~Forwards(i) \/ daemon = "stopped")

=============================================================================
