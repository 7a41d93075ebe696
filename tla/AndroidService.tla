--------------------------- MODULE AndroidService ---------------------------
(***************************************************************************)
(* The Android app: AnyPlugService, the UsbIpServer and UsbIpClient objects *)
(* it makes, and the handlers of the activities that call it               *)
(* (MainActivity.kt, TvMainActivity.kt).                                   *)
(*                                                                         *)
(* A handler of the main thread is one step, up to the release of a device *)
(* that ends UsbIpServer.stop.  start() runs on an IO thread per startServer*)
(* and looks at the serverRunner field only when that thread gets going.   *)
(* One device, and one peer at a time for each server.  sharedDeviceName   *)
(* always changes with the mode and is not kept.  Wake locks, notifications *)
(* and the advertiser are left out.                                        *)
(***************************************************************************)
EXTENDS Naturals

CONSTANT MaxCalls   \* bound on calls of startServer and startClient

ASSUME AndroidAssumption == MaxCalls \in Nat

\* A call makes an object and launches a coroutine; both go by its number.
Runner == 1..MaxCalls
Field == 0..MaxCalls        \* a reference to a runner, 0 for null
Mode == {"IDLE", "SERVER", "CLIENT", "AWAITING_DEVICE"}

VARIABLES
    plugged,       \* the device is attached
    claimer,       \* the runner whose connection has its interfaces
    mode,          \* currentMode
    serverRunner,
    shown,         \* serviceMode of the activity
    asking,        \* a permission request is pending
    calls,         \* calls of startServer and startClient
    spc, srun,     \* a call's coroutine: its place, the runner it starts
    son,           \* the listening socket its accept() waits on
    running,       \* UsbIpServer.running
    conn,          \* claimedDevice and deviceConnection are not null
    listening,     \* the listening socket a coroutine has opened is open
    socket,        \* serverSocket: the coroutine that opened it, 0 for null
    scope,         \* the runner's scope is not cancelled
    releasing,     \* stop() has still to cancel the scope and release
    peerpc,        \* handleClient of the runner's peer
    hsock          \* its socket: open (not in clientSockets), listed, closed

service == <<mode, serverRunner>>
activity == <<shown, asking, calls>>
usb == <<plugged, claimer>>
coroutines == <<spc, srun, son>>
stopped == <<running, listening, socket, releasing, hsock>>
owned == <<conn, scope>>
androidVars == <<service, activity, usb, coroutines, stopped, owned, peerpc>>

\* The types, and: the interfaces of the device are held only by the connection
\* of a runner, to a device that is there.
AndroidTypeOK ==
    /\ claimer # 0 => plugged /\ conn[claimer]
    /\ plugged \in BOOLEAN /\ claimer \in Field
    /\ mode \in Mode /\ shown \in Mode /\ serverRunner \in Field
    /\ asking \in BOOLEAN /\ calls \in 0..MaxCalls
    /\ spc \in [Runner -> {"none", "link", "launched", "claim", "bind", "loop",
                           "accept", "threw", "catch", "done"}]
    /\ srun \in [Runner -> Field] /\ son \in [Runner -> Field]
    /\ running \in [Runner -> BOOLEAN] /\ conn \in [Runner -> BOOLEAN]
    /\ listening \in [Runner -> BOOLEAN] /\ socket \in [Runner -> Field]
    /\ scope \in [Runner -> BOOLEAN]
    /\ releasing \in [Runner -> {"no", "main", "io"}]
    /\ peerpc \in [Runner -> {"none", "launched", "read", "urb"}]
    /\ hsock \in [Runner -> {"open", "listed", "closed"}]

AndroidInit ==
    /\ plugged = TRUE /\ claimer = 0
    /\ mode = "IDLE" /\ shown = "IDLE" /\ serverRunner = 0
    /\ asking = FALSE /\ calls = 0
    /\ spc = [c \in Runner |-> "none"]
    /\ srun = [c \in Runner |-> 0] /\ son = [c \in Runner |-> 0]
    /\ running = [r \in Runner |-> FALSE] /\ conn = [r \in Runner |-> FALSE]
    /\ listening = [c \in Runner |-> FALSE]
    /\ socket = [r \in Runner |-> 0]
    /\ scope = [r \in Runner |-> TRUE]
    /\ releasing = [r \in Runner |-> "no"]
    /\ peerpc = [r \in Runner |-> "none"] /\ hsock = [r \in Runner |-> "closed"]

(***************************************************************************)
(* UsbIpServer.stop                                                        *)
(***************************************************************************)
Closed(r) == [c \in Runner |-> listening[c] /\ c # socket[r]]

\* Mutant: the sockets of the clients are forgotten, not closed.
MutStopRunner(r, thread) ==
    /\ running' = [running EXCEPT ![r] = FALSE]
    /\ listening' = Closed(r)
    /\ socket' = [socket EXCEPT ![r] = 0]
    /\ hsock' = [hsock EXCEPT ![r] = IF @ = "listed" THEN "open" ELSE @]
    /\ releasing' = [releasing EXCEPT ![r] = thread]

\* Up to the end of its synchronized block: the listening socket is closed, and
\* every client socket that is in the list.
StopRunner(r, thread) ==
    /\ running' = [running EXCEPT ![r] = FALSE]
    /\ listening' = Closed(r)
    /\ socket' = [socket EXCEPT ![r] = 0]
    /\ hsock' = [hsock EXCEPT ![r] = IF @ = "listed" THEN "closed" ELSE @]
    /\ releasing' = [releasing EXCEPT ![r] = thread]

\* serverRunner?.stop()
StopField(thread) ==
    IF serverRunner # 0 THEN StopRunner(serverRunner, thread)
    ELSE UNCHANGED stopped

\* Mutant: the connection is dropped with the interfaces still claimed.
MutRelease(r) ==
    /\ releasing[r] # "no"
    /\ releasing' = [releasing EXCEPT ![r] = "no"]
    /\ scope' = [scope EXCEPT ![r] = FALSE]
    /\ conn' = [conn EXCEPT ![r] = FALSE]
    /\ UNCHANGED <<service, activity, usb, coroutines, running, listening,
                   socket, hsock, peerpc>>

\* scope.cancel and releaseDevice.
Release(r) ==
    /\ releasing[r] # "no"
    /\ releasing' = [releasing EXCEPT ![r] = "no"]
    /\ scope' = [scope EXCEPT ![r] = FALSE]
    /\ conn' = [conn EXCEPT ![r] = FALSE]
    /\ claimer' = IF claimer = r THEN 0 ELSE claimer
    /\ UNCHANGED <<service, activity, plugged, coroutines, running, listening,
                   socket, hsock, peerpc>>

(***************************************************************************)
(* The main thread                                                         *)
(***************************************************************************)
MainIsFree == \A r \in Runner : releasing[r] # "main"

\* startServer: a new object replaces the old one, which is not stopped.
StartServer ==
    /\ calls < MaxCalls
    /\ calls' = calls + 1
    /\ mode' = "SERVER"
    /\ serverRunner' = calls + 1
    /\ spc' = [spc EXCEPT ![calls + 1] = "launched"]

\* The dialog of Android, for an activity without the permission.
RequestPermission == asking' = TRUE /\ UNCHANGED <<calls, service, spc>>

\* onStartServer of the activities, which do or do not have the permission.
OnStartServer ==
    \/ StartServer /\ UNCHANGED asking
    \/ RequestPermission

\* The button of the screens.  A device that is shown as shared cannot be shared
\* again.
Share ==
    /\ MainIsFree /\ plugged /\ shown \in {"IDLE", "CLIENT"}
    /\ OnStartServer
    /\ UNCHANGED <<shown, usb, srun, son, stopped, owned, peerpc>>

\* The answer to the permission request, whatever has happened since.
PermissionResult ==
    /\ MainIsFree /\ asking
    /\ asking' = FALSE
    /\ StartServer \/ UNCHANGED <<calls, service, spc>>
    /\ UNCHANGED <<shown, usb, srun, son, stopped, owned, peerpc>>

\* startClient.
Connect ==
    /\ MainIsFree
    /\ calls < MaxCalls
    /\ calls' = calls + 1
    /\ mode' = "CLIENT"
    /\ spc' = [spc EXCEPT ![calls + 1] = "link"]
    /\ UNCHANGED <<serverRunner, shown, asking, usb, srun, son, stopped, owned,
                   peerpc>>

\* stop: the field keeps its object.
Stop ==
    /\ MainIsFree
    /\ shown \in {"SERVER", "CLIENT"}
    /\ mode' = "IDLE"
    /\ StopField("main")
    /\ UNCHANGED <<serverRunner, activity, usb, coroutines, owned, peerpc>>

OnDeviceDisconnected ==
    /\ StopField("main")
    /\ serverRunner' = 0
    /\ mode' = "AWAITING_DEVICE"

\* The device is unplugged: the activity's receiver tells the service when it is
\* in server mode and sharedDeviceName, which the other modes clear, is the
\* device's.
Unplug ==
    /\ MainIsFree /\ plugged
    /\ plugged' = FALSE /\ claimer' = 0
    /\ IF shown = "SERVER" /\ mode \in {"SERVER", "AWAITING_DEVICE"}
       THEN OnDeviceDisconnected ELSE UNCHANGED <<stopped, service>>
    /\ UNCHANGED <<activity, coroutines, owned, peerpc>>

\* It is plugged in again: tryReconnect.
Replug ==
    /\ MainIsFree /\ ~plugged
    /\ plugged' = TRUE
    /\ IF shown = "AWAITING_DEVICE" THEN OnStartServer
       ELSE UNCHANGED <<asking, calls, service, spc>>
    /\ UNCHANGED <<shown, claimer, srun, son, stopped, owned, peerpc>>

\* modeCollector: the activity gets to see the mode.
ModeCollected ==
    /\ MainIsFree
    /\ shown # mode
    /\ shown' = mode
    /\ UNCHANGED <<service, asking, calls, usb, coroutines, stopped,
                   owned, peerpc>>

(***************************************************************************)
(* UsbIpClient.start, on the thread of coroutine c                         *)
(***************************************************************************)
Goto(c, label) == spc' = [spc EXCEPT ![c] = label]

\* start() has ended, by an exception or not.
StartEnds(c, label) ==
    /\ Goto(c, label)
    /\ srun' = [srun EXCEPT ![c] = 0] /\ son' = [son EXCEPT ![c] = 0]

\* It returns after requestImport: urbLoop is empty.
LinkImported(c) ==
    /\ spc[c] = "link"
    /\ Goto(c, "done")
    /\ UNCHANGED <<service, activity, usb, srun, son, stopped, owned, peerpc>>

\* No connection, no import, or stop() has closed the socket: the catch block of
\* startClient.
LinkFails(c) ==
    /\ spc[c] = "link"
    /\ Goto(c, "done")
    /\ mode' = "IDLE"
    /\ UNCHANGED <<serverRunner, activity, usb, srun, son, stopped, owned, peerpc>>

(***************************************************************************)
(* UsbIpServer.start, on the thread of coroutine c                         *)
(***************************************************************************)
\* serverRunner?.start()
StartRunner(c) ==
    /\ spc[c] = "launched"
    /\ IF serverRunner = 0
       THEN Goto(c, "done") /\ UNCHANGED <<srun, running>>
       ELSE /\ Goto(c, "claim")
            /\ srun' = [srun EXCEPT ![c] = serverRunner]
            /\ running' = [running EXCEPT ![serverRunner] = TRUE]
    /\ UNCHANGED <<service, activity, usb, son, listening, socket, releasing,
                   hsock, owned, peerpc>>

\* findDevice and claimDevice, which fails when another connection has the
\* interfaces, and may fail otherwise (permission, a mounted file system).
ClaimDevice(c) ==
    /\ spc[c] = "claim"
    /\ \/ /\ plugged /\ claimer = 0
          /\ Goto(c, "bind")
          /\ conn' = [conn EXCEPT ![srun[c]] = TRUE]
          /\ claimer' = srun[c]
          /\ UNCHANGED <<srun, son>>
       \/ StartEnds(c, "threw") /\ UNCHANGED <<conn, claimer>>
    /\ UNCHANGED <<service, activity, plugged, stopped, scope, peerpc>>

\* A port has one listening socket, with SO_REUSEADDR too.
Bind(c) ==
    /\ spc[c] = "bind"
    /\ IF \A b \in Runner : ~listening[b]
       THEN /\ Goto(c, "loop")
            /\ listening' = [listening EXCEPT ![c] = TRUE]
            /\ socket' = [socket EXCEPT ![srun[c]] = c]
            /\ UNCHANGED <<srun, son>>
       ELSE StartEnds(c, "threw") /\ UNCHANGED <<listening, socket>>
    /\ UNCHANGED <<service, activity, usb, running, releasing, hsock,
                   owned, peerpc>>

\* Mutant: the listening socket is not closed when the loop ends.
MutCloseServerSocket(c) == UNCHANGED <<listening, socket>>

\* The finally block.
CloseServerSocket(c) ==
    /\ listening' = Closed(srun[c])
    /\ socket' = [socket EXCEPT ![srun[c]] = 0]

\* while (running) ... serverSocket?.accept() ?: break
AcceptLoop(c) ==
    /\ spc[c] = "loop"
    /\ IF running[srun[c]] /\ socket[srun[c]] # 0
       THEN /\ Goto(c, "accept")
            /\ son' = [son EXCEPT ![c] = socket[srun[c]]]
            /\ UNCHANGED <<srun, listening, socket>>
       ELSE StartEnds(c, "done") /\ CloseServerSocket(c)
    /\ UNCHANGED <<service, activity, usb, running, releasing, hsock,
                   owned, peerpc>>

\* A peer connects.  Nothing is launched in a cancelled scope.
Accept(c) ==
    /\ spc[c] = "accept"
    /\ listening[son[c]]
    /\ peerpc[srun[c]] = "none"
    /\ Goto(c, "loop") /\ son' = [son EXCEPT ![c] = 0]
    /\ IF scope[srun[c]]
       THEN /\ peerpc' = [peerpc EXCEPT ![srun[c]] = "launched"]
            /\ hsock' = [hsock EXCEPT ![srun[c]] = "open"]
       ELSE UNCHANGED <<peerpc, hsock>>
    /\ UNCHANGED <<service, activity, usb, srun, running, listening, socket,
                   releasing, owned>>

\* Mutant: the loop takes the exception for a connection that failed, and goes
\* on.
MutAcceptFails(c) ==
    /\ spc[c] = "accept"
    /\ ~listening[son[c]]
    /\ UNCHANGED androidVars

\* The socket was closed: SocketException, through the finally block.
AcceptFails(c) ==
    /\ spc[c] = "accept"
    /\ ~listening[son[c]]
    /\ StartEnds(c, "threw")
    /\ CloseServerSocket(c)
    /\ UNCHANGED <<service, activity, usb, running, releasing, hsock,
                   owned, peerpc>>

\* The catch block of startServer works on the fields as they are now: the mode,
ServerCaught(c) ==
    /\ spc[c] = "threw"
    /\ Goto(c, "catch")
    /\ mode' = "IDLE"
    /\ UNCHANGED <<serverRunner, activity, usb, srun, son, stopped, owned, peerpc>>

\* and then whichever runner is in the field.
ServerCaughtStops(c) ==
    /\ spc[c] = "catch"
    /\ Goto(c, "done")
    /\ StopField("io")
    /\ serverRunner' = 0
    /\ UNCHANGED <<mode, activity, usb, srun, son, owned, peerpc>>

(***************************************************************************)
(* handleClient and urbLoop of runner r                                    *)
(***************************************************************************)
OnPeer ==
    UNCHANGED <<service, activity, usb, coroutines, running, listening, socket,
                releasing, owned>>

\* The finally block closes the socket and takes it off the list.
PeerDone(r) ==
    /\ peerpc' = [peerpc EXCEPT ![r] = "none"]
    /\ hsock' = [hsock EXCEPT ![r] = "closed"]

\* A cancelled coroutine that has not begun never does, and nobody closes the
\* socket it was given.
HandleClient(r) ==
    /\ peerpc[r] = "launched"
    /\ IF scope[r]
       THEN /\ peerpc' = [peerpc EXCEPT ![r] = "read"]
            /\ hsock' = [hsock EXCEPT ![r] = "listed"]
       ELSE peerpc' = [peerpc EXCEPT ![r] = "none"] /\ UNCHANGED hsock
    /\ OnPeer

\* An import request has been read: a reply, and the URB loop, if the device and
\* its connection are there and the runner has not been stopped.
HandleImport(r) ==
    /\ peerpc[r] = "read" /\ hsock[r] # "closed"
    /\ IF conn[r] /\ running[r]
       THEN peerpc' = [peerpc EXCEPT ![r] = "urb"] /\ UNCHANGED hsock
       ELSE PeerDone(r)
    /\ OnPeer

\* A request for the device list has been read: it is answered, if the device is
\* still claimed, and the connection ends.
HandleDevList(r) ==
    /\ peerpc[r] = "read" /\ hsock[r] # "closed"
    /\ PeerDone(r)
    /\ OnPeer

\* The peer closes, sends something else, or a reply cannot be written.
PeerCloses(r) ==
    /\ peerpc[r] \in {"read", "urb"} /\ hsock[r] # "closed"
    /\ PeerDone(r)
    /\ OnPeer

\* while (running), after a URB that was answered.
UrbLoopLeft(r) ==
    /\ peerpc[r] = "urb" /\ ~running[r]
    /\ PeerDone(r)
    /\ OnPeer

\* readExact fails on a closed socket.
LoopEnds(r) ==
    /\ peerpc[r] \in {"read", "urb"} /\ hsock[r] = "closed"
    /\ PeerDone(r)
    /\ OnPeer

-----------------------------------------------------------------------------
ServerThread(c) ==
    \/ StartRunner(c) \/ ClaimDevice(c) \/ Bind(c)
    \/ AcceptLoop(c) \/ AcceptFails(c) \/ ServerCaught(c) \/ ServerCaughtStops(c)

AndroidNext ==
    \/ Share \/ PermissionResult \/ Connect \/ Stop \/ Unplug \/ Replug \/ ModeCollected
    \/ \E r \in Runner :
         \/ Release(r) \/ ServerThread(r) \/ Accept(r)
         \/ LinkImported(r) \/ LinkFails(r)
         \/ HandleClient(r) \/ HandleImport(r) \/ HandleDevList(r)
         \/ PeerCloses(r) \/ UrbLoopLeft(r) \/ LoopEnds(r)

AndroidSpec == AndroidInit /\ [][AndroidNext]_androidVars

\* Threads make progress; peers and the user need not.
AndroidFairSpec ==
    /\ AndroidSpec
    /\ \A r \in Runner : WF_androidVars(ServerThread(r)) /\ WF_androidVars(LoopEnds(r))

-----------------------------------------------------------------------------
(***************************************************************************)
(* Properties                                                              *)
(***************************************************************************)
\* UsbIpServer.start leaves no listening socket behind, whether its loop ends,
\* accept() throws, or the port was taken.
PortIsFreed ==
    \A c \in Runner : listening[c] => spc[c] \in {"loop", "accept"}

\* stop() "unblocks accept()": no coroutine goes on waiting for peers of a
\* stopped runner.
StopEndsAccept ==
    \A c \in Runner :
        (spc[c] = "accept" /\ ~running[srun[c]])
            ~> (spc[c] = "accept" => running[srun[c]])

\* stop() "unblocks readExact() in their urbLoop": no loop of a stopped runner
\* goes on waiting for its peer.
StopEndsUrbLoop ==
    \A r \in Runner :
        (peerpc[r] = "urb" /\ ~running[r]) ~> (peerpc[r] # "urb" \/ running[r])

\* stop() ends both kinds of waiting, in whatever order the main thread and the
\* coroutines of an old and a new runner take their steps.
StopEndsLoops == StopEndsAccept /\ StopEndsUrbLoop

\* onDeviceDisconnected "keeps the service alive so it can auto-re-share": only
\* the user, the device's return, or a connection the user has asked for ends the
\* wait for the device.
AwaitsDevice ==
    [][mode = "AWAITING_DEVICE" /\ mode' = "IDLE"
            => Stop \/ \E c \in Runner : LinkFails(c)]_androidVars

=============================================================================
