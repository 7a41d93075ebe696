---------------------------- MODULE ImportClient ----------------------------
(***************************************************************************)
(* usbip-client importing devices from usbip-server: Client::import_device *)
(* (client.rs) and its reconnect state machine (reconnect.rs), composed    *)
(* with the connection tasks of ExportServer.                              *)
(*                                                                         *)
(* import_device opens one connection to attach the virtual device         *)
(* (do_import) and drops it; the task it spawns opens another one for the  *)
(* URBs (urb_forwarding_task), and one more for each retry.  A client      *)
(* reads the server's replies from a mailbox, so the two sides interleave  *)
(* freely.  The client has no encrypted transport: the server's is off.    *)
(***************************************************************************)
EXTENDS ExportServer

CONSTANTS Client,         \* calls of import_device
          Device,         \* the busid each of them asks for
          AutoReconnect,  \* ClientConfig.auto_reconnect
          MaxRetries      \* ReconnectConfig.max_retries

ASSUME ClientAssumption ==
    /\ Device \in [Client -> Busid]
    /\ AutoReconnect \in BOOLEAN
    /\ MaxRetries \in Nat

VARIABLES
    cpc,      \* where each call stands
    conn,     \* its open stream (None: no stream)
    reply,    \* status of the OP_REP_IMPORT it has yet to read
    rstate,   \* ReconnectState of its task
    attempt,  \* the attempt of a BackOff state, 0 in the others
    retries   \* history: RetryAfter decisions since its task started

clientVars == <<cpc, conn, reply, rstate, attempt, retries>>
recon == <<rstate, attempt, retries>>
allVars == <<vars, clientVars>>

ClientPC == {"import", "await", "reimport", "reawait", "forward", "backoff",
             "failed", "ended", "stopped"}

ClientTypeOK ==
    /\ TypeOK
    /\ cpc \in [Client -> ClientPC]
    /\ conn \in [Client -> Conn \cup {None}]
    /\ reply \in [Client -> {"none", "ok", "busy", "nodev"}]
    /\ rstate \in [Client -> {"Active", "BackOff", "Stopped"}]
    /\ attempt \in [Client -> Nat]
    /\ retries \in [Client -> Nat]

ClientInit ==
    /\ Init
    /\ encryption = FALSE
    /\ cpc = [k \in Client |-> "import"]
    /\ conn = [k \in Client |-> None]
    /\ reply = [k \in Client |-> "none"]
    /\ rstate = [k \in Client |-> "Active"]
    /\ attempt = [k \in Client |-> 0]
    /\ retries = [k \in Client |-> 0]

(***************************************************************************)
(* The server's side of a connection                                       *)
(***************************************************************************)
\* The OP_REP_IMPORT written on connection c reaches whoever opened it.
Deliver(c, status) ==
    /\ reply' = [k \in Client |-> IF conn[k] = c THEN status ELSE reply[k]]
    /\ UNCHANGED <<cpc, conn, recon>>

\* A client sends its request when it connects.
ServerReads(k) ==
    /\ conn[k] \in Conn
    /\ \/ ReadImport(conn[k], Device[k])
       \/ peer[conn[k]] = "closed" /\ HandleOther(conn[k])
    /\ UNCHANGED clientVars

\* The request of a client that has gone meanwhile is incomplete.
ServerDiscards(c) ==
    /\ \A k \in Client : conn[k] # c
    /\ HandleOther(c)
    /\ UNCHANGED clientVars

ServerReplies(c) ==
    \/ ReplyImport(c) /\ Deliver(c, "ok")
    \/ ReplyBusy(c) /\ Deliver(c, "busy")
    \/ ReplyNoDev(c) /\ Deliver(c, "nodev")

ServerWorks(c) ==
    /\ \/ FindDevice(c) \/ FoundBusy(c) \/ InsertExport(c)
       \/ ClaimBackend(c) \/ RecordClaim(c) \/ GetDescriptorTree(c)
       \/ FailImport(c)
       \/ UrbLoop(c)
    /\ UNCHANGED clientVars

\* A cable, or the network between the two ends, fails.
NetworkDrops(c) ==
    /\ PeerCloses(c)
    /\ UNCHANGED clientVars

Replug(b) ==
    /\ Plug(b) \/ Unplug(b)
    /\ UNCHANGED clientVars

(***************************************************************************)
(* The client's side                                                       *)
(***************************************************************************)
ClientGoto(k, label) == cpc' = [cpc EXCEPT ![k] = label]

\* Mutant: the streams of all clients are dropped.
MutDropAll(k) ==
    /\ conn' = [conn EXCEPT ![k] = None]
    /\ reply' = [reply EXCEPT ![k] = "none"]
    /\ peer' = [c \in Conn |-> "closed"]
    /\ UNCHANGED <<pc, busid, exports, lock, usbVars>>

\* Mutant: the stream is leaked, so the server never sees it closed.
MutDropLeaks(k) ==
    /\ conn' = [conn EXCEPT ![k] = None]
    /\ reply' = [reply EXCEPT ![k] = "none"]
    /\ UNCHANGED vars

\* The stream of k is dropped: the server sees it closed, if it still looks.
DropStream(k) ==
    /\ conn' = [conn EXCEPT ![k] = None]
    /\ reply' = [reply EXCEPT ![k] = "none"]
    /\ peer' = [c \in Conn |-> IF c = conn[k] THEN "closed" ELSE peer[c]]
    /\ UNCHANGED <<pc, busid, exports, lock, usbVars>>

\* The server's end of k's stream is gone, and all it wrote has been read.
Lost(k) ==
    /\ reply[k] = "none"
    /\ pc[conn[k]] = "idle" \/ peer[conn[k]] = "closed"

\* TcpStream::connect and the request, in do_import and, for the URBs, in
\* tcp_connect_and_import.
Connect(k, c) ==
    /\ cpc[k] \in {"import", "reimport"}
    /\ c \notin {conn[j] : j \in Client}
    /\ Accept(c)
    /\ conn' = [conn EXCEPT ![k] = c]
    /\ ClientGoto(k, IF cpc[k] = "import" THEN "await" ELSE "reawait")
    /\ UNCHANGED <<reply, recon>>

\* do_import succeeds, the virtual device is attached, the stream is dropped at
\* the end of do_import, and the forwarding task is spawned.
Attach(k) ==
    /\ cpc[k] = "await"
    /\ reply[k] = "ok"
    /\ DropStream(k)
    /\ ClientGoto(k, "reimport")
    /\ rstate' = [rstate EXCEPT ![k] = "Active"]
    /\ attempt' = [attempt EXCEPT ![k] = 0]
    /\ retries' = [retries EXCEPT ![k] = 0]

\* do_import fails: no connection, no positive reply, or no virtual device.
ImportFails(k) ==
    /\ \/ cpc[k] = "import"
       \/ cpc[k] = "await" /\ (reply[k] # "none" \/ Lost(k))
    /\ DropStream(k)
    /\ ClientGoto(k, "failed")
    /\ UNCHANGED recon

\* Mutant: the loop starts without the reply to its request.
MutStartForwarding(k) ==
    /\ cpc[k] = "reawait"
    /\ reply' = [reply EXCEPT ![k] = "none"]
    /\ ClientGoto(k, "forward")
    /\ UNCHANGED <<vars, conn, recon>>

\* tcp_connect_and_import succeeds, and urb_forwarding_loop starts.
StartForwarding(k) ==
    /\ cpc[k] = "reawait"
    /\ reply[k] = "ok"
    /\ reply' = [reply EXCEPT ![k] = "none"]
    /\ ClientGoto(k, "forward")
    /\ UNCHANGED <<vars, conn, recon>>

\* on_error for a transient error: the attempt that follows, and should_retry.
NextAttempt(k) == IF rstate[k] = "BackOff" THEN attempt[k] + 1 ELSE 0

\* Mutant: one retry too many.
MutShouldRetry(n) == n <= MaxRetries

ShouldRetry(n) == n < MaxRetries

\* decide_reconnect answers RetryAfter.
Retry(k) ==
    /\ ShouldRetry(NextAttempt(k))
    /\ rstate' = [rstate EXCEPT ![k] = "BackOff"]
    /\ attempt' = [attempt EXCEPT ![k] = NextAttempt(k)]
    /\ retries' = [retries EXCEPT ![k] = @ + 1]
    /\ ClientGoto(k, "backoff")

\* decide_reconnect answers Stop.
Stop(k) ==
    /\ rstate' = [rstate EXCEPT ![k] = "Stopped"]
    /\ attempt' = [attempt EXCEPT ![k] = 0]
    /\ ClientGoto(k, "stopped")
    /\ UNCHANGED retries

\* urb_forwarding_task returned an error: the loop of import_device.
HandleError(k, category) ==
    \/ ~AutoReconnect /\ ClientGoto(k, "stopped") /\ UNCHANGED recon
    \/ AutoReconnect /\ category = "Transient" /\ Retry(k)
    \/ /\ AutoReconnect
       /\ category = "Transient" => ~ShouldRetry(NextAttempt(k))
       /\ Stop(k)

\* The connection is refused or reset (transient), or the network cannot be
\* reached (permanent).
ReconnectFails(k) ==
    /\ \/ cpc[k] = "reimport"
       \/ cpc[k] = "reawait" /\ Lost(k)
    /\ DropStream(k)
    /\ \E category \in {"Transient", "Permanent"} : HandleError(k, category)

\* Every status but success becomes DeviceBusy, a permanent error.
Rejected(k) ==
    /\ cpc[k] = "reawait"
    /\ reply[k] \in {"busy", "nodev"}
    /\ DropStream(k)
    /\ HandleError(k, "Permanent")

\* complete_urb or cancel_urb fails in the loop.
ForwardFails(k) ==
    /\ cpc[k] = "forward"
    /\ DropStream(k)
    /\ \E category \in {"Transient", "Permanent"} : HandleError(k, category)

\* read_message fails: break, and the loop returns Ok, so the task stops.
ServerDisconnected(k) ==
    /\ cpc[k] = "forward"
    /\ Lost(k)
    /\ DropStream(k)
    /\ ClientGoto(k, "ended")
    /\ UNCHANGED recon

\* ctrl_c: the loop returns Ok.  (When the read has failed as well, select!
\* takes either branch, to the same effect.)
Interrupted(k) ==
    /\ cpc[k] = "forward"
    /\ ~Lost(k)
    /\ DropStream(k)
    /\ ClientGoto(k, "ended")
    /\ UNCHANGED recon

\* Mutant: the loop goes back to sleep instead of trying again.
MutBackOffOver(k) ==
    /\ cpc[k] = "backoff"
    /\ UNCHANGED allVars

\* tokio::time::sleep(delay) is over.  The state stays BackOff.
BackOffOver(k) ==
    /\ cpc[k] = "backoff"
    /\ ClientGoto(k, "reimport")
    /\ UNCHANGED <<vars, conn, reply, recon>>

\* The user imports the device once more.
ImportAgain(k) ==
    /\ cpc[k] \in {"failed", "ended", "stopped"}
    /\ ClientGoto(k, "import")
    /\ UNCHANGED <<vars, conn, reply, recon>>

-----------------------------------------------------------------------------
Importer(k) ==
    \/ \E c \in Conn : Connect(k, c)
    \/ Attach(k) \/ ImportFails(k) \/ StartForwarding(k)
    \/ ReconnectFails(k) \/ Rejected(k)
    \/ ForwardFails(k) \/ ServerDisconnected(k) \/ Interrupted(k)
    \/ BackOffOver(k) \/ ImportAgain(k)

ClientNext ==
    \/ \E k \in Client : Importer(k) \/ ServerReads(k)
    \/ \E c \in Conn : \/ ServerDiscards(c) \/ ServerReplies(c)
                       \/ ServerWorks(c) \/ NetworkDrops(c)
    \/ \E b \in Busid : Replug(b)

ClientSpec == ClientInit /\ [][ClientNext]_allVars

\* The steps by which the server answers the request on connection c.
Answers(c) ==
    /\ pc[c] \in Importing \cup {"header", "lookup", "locking", "busy"}
    /\ \/ \E k \in Client : conn[k] = c /\ ServerReads(k)
       \/ ServerReplies(c)
       \/ ServerWorks(c)

\* What a client does once its sleep is over, or its connection attempt is
\* decided, or a reply or the end of its stream is there to be read.
Proceeds(k) ==
    \/ \E c \in Conn : Connect(k, c)
    \/ StartForwarding(k) \/ ReconnectFails(k) \/ Rejected(k)
    \/ BackOffOver(k)

\* Ready tasks are polled on both sides, sleeps end and a connection attempt
\* has a result; the mutex is fair (see ExportServer).  Nothing makes a user
\* interrupt or repeat an import, nor a client that forwards stop.
ClientFairness ==
    /\ \A c \in Conn : SF_allVars(Answers(c))
    /\ \A k \in Client : WF_allVars(Proceeds(k))

ClientFairSpec == ClientSpec /\ ClientFairness

-----------------------------------------------------------------------------
(***************************************************************************)
(* Properties                                                              *)
(***************************************************************************)
\* The stream on which k forwards URBs is up at both ends.
Live(k) ==
    /\ cpc[k] = "forward"
    /\ pc[conn[k]] # "idle"
    /\ peer[conn[k]] = "open"

\* At most one client forwards the URBs of a device: the server's exclusive
\* entry carries over to what the clients do after their second import.
OneForwarder ==
    \A j, k \in Client : Live(j) /\ Live(k) /\ Device[j] = Device[k] => j = k

\* Why a client is told that its device is busy: another client is connected for
\* it, an import failed and left its entry behind, or the task of a connection
\* that is closed has yet to clean up, which may be that of its own first one.  It
\* is not refused for an open connection of its own, although each import makes two.
RefusedByOther ==
    \A k \in Client :
        conn[k] # None /\ pc[conn[k]] = "busy" =>
            LET entry == exports[Device[k]] IN
                \/ entry = Gone
                \/ entry \in Conn /\ peer[entry] = "closed"
                \/ \E j \in Client \ {k} : conn[j] = entry

\* The retries of one import task never exceed max_retries: BackOff counts them
\* all, over the connections that succeed in between.
RetryBudget ==
    \A k \in Client :
        /\ retries[k] <= MaxRetries
        /\ rstate[k] = "BackOff" => retries[k] = attempt[k] + 1

\* What clients and network do to the server are steps of ExportServer, so all
\* that is shown there holds here.
ServerUnderClients == Spec

\* Once attached, an import with a retry limit does not hang between its
\* connections: its task forwards URBs or stops.  A loss is noticed by both ends
\* here; no read has a timeout that would notice a silent one.
ImportSettles ==
    \A k \in Client : (cpc[k] = "reimport") ~> (cpc[k] \in {"forward", "stopped"})

\* PROTOCOL.md: ST_DEV_BUSY means "device already exported to another client".
\* While one client only uses the server, the connection for its URBs is never
\* told that the device is busy.
AloneNeverBusy ==
    \A k \in Client :
        cpc[k] = "reawait" /\ reply[k] = "busy" => \E j \in Client : j # k

\* client.rs: "When the TCP connection drops (transient error), the client
\* enters exponential backoff".  A forwarding task with retries left does not
\* end when its connection is lost.
DropEntersBackOff ==
    [][\A k \in Client :
          cpc[k] = "forward" /\ Lost(k) /\ ShouldRetry(NextAttempt(k))
              => cpc'[k] # "ended"]_allVars

\* reconnect.rs draws BackOff -> Active at "delay exhausted": a client that
\* forwards again is in the Active state.
ForwardIsActive == \A k \in Client : cpc[k] = "forward" => rstate[k] = "Active"

=============================================================================
