# AnyPlug in TLA+

AnyPlug shares USB devices over a network with the USB/IP protocol. A Rust server
exports the devices of a host, a Rust client attaches them to a virtual host
controller, an Android app can be either end, a Windows program wraps the server, and a
web console watches and configures it. This directory models those parts in TLA+,
model-checks small instances with TLC, and proves the central safety properties with
TLAPS for every value of the constants.

`PROJECT.json` has the exact correspondence (which definition models which lines), the
runs, the mutants that show each property can fail, the hazards and the theorems.

## 1. The system

| part | state it keeps | operations | shares state with |
|---|---|---|---|
| export server (`server.rs`) | `exports` map under a mutex, a task per connection | accept, device list, import, URB loop, clean-up | REST handlers, clients |
| USB stack (`usb.rs`, `usb_backend.rs`) | two maps of claimed devices with their mutexes; the kernel's drivers | claim, transfer, release | connection tasks |
| reply batcher (`batcher.rs`, `reply.rs`) | buffer, count, start time, last seqnum | push, flush, write, drain | its URB loop |
| REST API (`api.rs`, `discovery.rs`) | configuration, `server.toml`, latency channel, mDNS daemon; also `exports` | devices, connect, disconnect, config, scan, events | server tasks, web pages |
| import client (`client.rs`, `reconnect.rs`) | stream, reconnect state and attempt | import, forward, back off, retry | server |
| client daemon (`daemon.rs`, `vhci_linux.rs`) | list of managed connections, tokens, ports | connect, disconnect, shut down, a loop per connection | import client |
| framing (`wire.rs`, `urb.rs`, `UsbIpServer.kt`, `UsbIpClient.kt`) | bytes in transit | read and write of messages | both ends of a connection |
| descriptor tree (`descriptor.rs`, `client.rs`) | bytes read so far | write, read in chunks, parse | both ends of an import |
| encrypted transport (`crypto_stream.rs`, `crypto.rs`) | keys, frames | key exchange, read, write | both ends of a connection |
| Android service (`AnyPlugService.kt`, `UsbIpServer.kt`, `ServerAdvertiser.kt`, activities) | mode, runner objects, claimed device, sockets, wake locks, NSD registration | share, connect, stop, attach, detach, permission | main thread, IO threads, peers |
| Android discovery (`ServerDiscovery.kt`, `ServerAdvertiser.kt`, `discovery.rs`) | job, JmDNS session, multicast lock, list of servers | start, stop, restart, callbacks, scan | main thread, IO threads |
| Windows program (`main.rs`, `actions.rs`) | controller, threads, port | start, stop, service | server |
| web console (`ConnectionManager.tsx`, `LatencyDashboard.tsx`, `useWebSocket.ts`) | what is shown, sockets, timers | poll, buttons, reconnect | REST API |
| limits (`pool.rs`, `bandwidth.rs`) | queue of buffers; tokens and clock | acquire, drop, grow; refill, throttle | tasks of one process |
| hot-plug monitor (`hotplug.rs`) | channel of events | poll, send, receive | nobody yet |

What is hard in it: connection tasks that are cut at each `await` and can return early
with `?` after they have changed shared maps; a REST handler that writes the same map; a
client that uses two connections for one import; tokens that are cancelled while an
import is under way; framing without a length prefix that three languages' worth of
readers and writers must agree on; Android handlers on the main thread that overtake
blocking calls on IO threads; a configuration file that is emptied before it is written;
interfaces that are claimed one by one and drivers that must come back.

## 2. Modules

Dependencies between them: `ExportServer` is the root of `ExportServerRest` and
`ImportClient` (both EXTEND it), and implements `DeviceLease`, as does `UsbBackend` one
layer below. `Streams` puts `UrbFraming` and `CryptoTunnel` side by side, `Codecs` puts
`TxtRecord` and `DescriptorTree` side by side; they add no step. In the same way `Programs`
puts the programs around the server side by side (`WindowsApp`, `EventStream`, `DevicePage`,
`MdnsScan`, `HotplugMonitor`), and `HostParts` parts of a host (`UrbBatcher`,
`ConfigStore`, `VhciPorts`, `UrbBufferPool`, `TokenBucket`): the specification is the
conjunction of theirs, and the module states what holds of them together. The others stand
alone. `MCDaemon`, `MCPrograms` and `MCParts` run several of them in one model (section 4).

### ExportServer, DeviceLease, ExportServerRest

One task per connection slot, its place in `pc`:
`idle -> header -> lookup -> locking -> (busy | claim -> record -> tree -> reply -> keys)
-> urb <-> write`, then `drain -> release -> remove -> idle`. A task is cut where the code
awaits or where a call can fail. `exports` holds the connection that an entry belongs to;
an entry whose task returned early names `Gone`. The guard that `handle_import` keeps over
the busy reply is the variable `lock`; other critical sections contain no await and are
one step that needs `lock = None`. `managed` and `opened` are the claim maps of
`UsbDeviceManager` and of the backend.

`DeviceLease` is the abstract promise: a device is leased to one client at a time, only
the holder opens it, a lease ends with the device closed or is lost for good. The
refinement mapping takes `exports` for the holders and `opened` for the open devices.

`ExportServerRest` adds `POST /api/disconnect`, which removes an entry of any session.
`POST /api/connect` is an action of `DevicePage` only (`PostConnect`): `RealImporter::import`
calls `block_on` on a thread of the runtime, which panics, and the other importer returns
`NotSupported`, so it never gets to the map.

### UsbBackend

`ExportServer` takes a claim and a release for one step each; `UsbBackend` takes them apart.
A busid stands for the task that has its entry in `exports`, so it has one call at a time.
`deviceOf` says which device a busid names: `parse_busid` takes "1-4" and "01-4" for the same
one, while every map is keyed by the text. A claim goes over the interfaces (detach the
kernel's driver, whose error is ignored; claim, whose error returns and drops the handle),
then enters the two maps. A transfer holds the manager's mutex and inside it the backend's;
a release holds the manager's mutex to its end. What an interface is bound to is the
kernel's view: its driver, a handle, or nothing. libusb and the kernel are external: a
claimed interface is refused to others, a dropped handle gives up its interfaces but attaches
no driver. The refinement mapping to `DeviceLease` takes a device for leased to the busid
whose handle has its first interface, and for open while a handle of it is in the map.

### UrbBatcher

The reply path of one URB loop. A reply is its ordinal, the seqnum of its command (wrapping
at `Seqnums`) and its size. `push` is modelled with its three reasons to return before it
inserts (gap in the seqnums, no room, old batch) and with the two after it has inserted.
The timer is external: it turns `running` into `expired` at any moment.

### ImportClient

Calls of `Client::import_device`, each with the connection of `do_import`, the second
connection of `urb_forwarding_task`, and one more for each retry, against the tasks of
`ExportServer`. Replies travel through a mailbox. The network may drop a connection and a
device may be pulled at any moment. The client has no encrypted transport, so the server's
is off. The retry limit is `Some(n)`; with `None` the code retries for ever.

### Daemon

CLI connections with one command each, the managed list, one `auto_connect_loop` per
entry and, beside each loop, the task that `import_device` itself spawns and that no token
reaches. The list is only touched in locked sections without await, so each is one step. A
server is external: it admits one forwarder per device and may refuse any request.

### UrbFraming

The connection after `OP_REP_IMPORT` as two streams of 4-byte words. Each word knows the
message it was written for, so reading at a wrong boundary is visible. The sizes are those
the code uses: 12 words after the header of `CMD_SUBMIT` (44 bytes and 4 of padding), 11 of
`RET_SUBMIT`, 3 of `RET_UNLINK`. The "wire" peer frames as `wire.rs` does, both servers
answer it; "forwarding" is the loop of the Rust client, "android" is `UsbIpClient.kt`. The
Android server writes each reply at once. The Rust server hands it to the batcher, which may
keep it, drop it or give back what it has (`ServerPushes`), and then writes what it got
(`ServerFlushes`); what the batcher does when is in `UrbBatcher`.

### AndroidService, ShareResources

`startServer` and `startClient` make a runner and launch a coroutine; handlers of the main
thread are one step each, up to the release of the device that ends `UsbIpServer.stop`.
Coroutines, the accept loop, a peer's loop and the catch blocks interleave with them.
Notifications are left out: nothing reads them back.

`ShareResources` has what a session holds besides the device: the wake lock with its timeout,
the counted wake lock of the URBs, and the registration with `NsdManager`, whose callbacks
come later and in any order. `startServer` and `startClient` set the mode, take the lock and
launch the session in three steps, which the catch block of an earlier session can come
between. A session may end or throw at any moment after its start; its
catch block runs on an IO thread in steps. `UsbIpClient.submitUrb`, which takes the counted
lock as well, has no caller.

### ConfigStore, EventStream, DevicePage, MdnsScan

`ConfigStore`: a start with `server.toml` or with defaults, `put_config` as read, emptied
file, written file and committed memory, with crashes and other requests in between.
`EventStream`: `handle_ws` with its broadcast receiver (lag included), `useWebSocket` with
its timer and clean-up, the window of the dashboard. `SendSample` stands for a producer,
which the server does not have yet. The demo data of the dashboard is left out.
`DevicePage`: unsequenced polls of the device list, and the buttons of the page.
`MdnsScan`: requests for a scan that share one mDNS daemon, reports until the deadline (the
first of a name wins), and the shutdown of the daemon at the end of each scan.

### WindowsApp, ServerDiscovery, TxtRecord, DescriptorTree, CryptoTunnel, VhciPorts, HotplugMonitor, UrbBufferPool, TokenBucket

`WindowsApp`: the thread of `ServerController::start` polls `server.run()` and
`wait_for_shutdown` in either order; the second blocks the thread. GUI and service share
the port. `ServerDiscovery`: `start`, `stop` and `restart` on the main thread against jobs
that block in `openJmDns`; the list is read and written in two steps, so updates can be
lost, and fields are read as last written; `dispose` is `stop` with no later start.
`TxtRecord`: the two formats of the devices property and the parser that tells them apart.
`DescriptorTree`: a tree as a sequence of descriptors with their sizes, read in chunks that
end between descriptors. `CryptoTunnel`: key exchange and frames, the cipher taken to be
right. `VhciPorts`: imports that look for a port in the status file and attach to it in a
second access; the file is taken to have the form the code looks for, one line a port.
`HotplugMonitor`: the polling thread, its channel, and the end of source and monitor.
`UrbBufferPool` and `TokenBucket`: used by tests and benchmarks only so far, as is
the client side of the tunnel.

## 3. What the runs show

| run | question | answer |
|---|---|---|
| `export` | Can two sessions share a device, or the maps of claims and exports disagree? | No. The lease is implemented. A task whose peer has closed ends; the device is given back if it ended in a read, not after a failed write. |
| `rest_exclusive` | The same with `POST /api/disconnect` | Violated: the entry goes, the session stays, and the next client is admitted to its import; what comes after is for libusb, which refuses its claim (`UsbBackend`). |
| `batcher_lost` | Is a refused reply pushed again? | Violated: `handle_urb_loop` flushes and reads on; the reply is gone. |
| `import_safety` | Can two clients forward one device? Are retries bounded? Who makes a device busy? | No; yes; another client, a failed import, or a closed connection not yet cleaned up, which may be its own. The server sees only steps of its own specification. |
| `import_liveness` | Can an attached import hang between its connections? | No: it forwards or stops, if lost connections are noticed. |
| `daemon` | Can `Disconnect` reach every loop? Does a cancelled loop end? What does Android discovery give back? | Yes, though by busid alone, so it may take the entry of another server first; yes, once a pending import has its answer, and it opens no further connection for URBs. One target can get two entries only from two CLI connections. A `stop` that meets no job in `openJmDns` or merging leaves nothing behind. |
| `framing_sync` | Does the Rust client's forwarding connection stay in step with the server? | Violated: it leaves the descriptor tree in the stream. |
| `android` | Is the port given back, and are loops unblocked, in any order of calls? | Yes. Interfaces are held only by the connection of a runner, which may be one that claimed after `stop` (below). |
| `android_awaits` | Is an unplugged device awaited until the user ends it? | Violated: the catch block of `startServer` sets the mode to IDLE. |
| `programs` | Threads of the Windows program, event stream, device list, scans, hot-plug events, TXT records, descriptor trees | Every thread can be stopped and then ends. Samples are shown in order, though some are missed; a scan answers with what it took; hot-plug events arrive in order. TXT records are decoded as encoded, and so are trees that leave nothing out and arrive in one read. The console opens a socket again and its list catches up. |
| `parts` | Who holds the interfaces of a device? Do readers and writers agree on sizes? Does anything block for ever? What becomes of replies, the configuration, ports, buffers, the rate, a session's resources? | One handle at a time, also for two spellings of a device; drivers come back unless a claim failed half-way. They agree, for every direction, length and status, with both servers, and frames pass a tunnel unchanged up to one that is too long. No: calls return, commands are read and executed and what is written is read, and the key exchange ends. Batches keep order, bounds and shape, and each reply is on the stream or was refused. File and memory agree after requests that did not overlap, and no PUT and no start with a readable file changes the id. Ports are not shared, buffers are blank, at most twice the rate passes. Locks and registrations of a session are given back, with the exceptions below. |
| `rate` | Does the bandwidth limit hold? | Violated: the time slept for a deficit is credited again. |

Some properties of `programs` and `parts` join what several modules state: the definition in
the `MC` module or in the module that puts them side by side names the parts, and each part's
statement, with its comment, is in its own module (`DriversKept` and `BackendIsLease` in
`UsbBackend`, `TunnelCarries` in `CryptoTunnel`, `FirstReportWins` in `MdnsScan`, `DevidIsOwn`
in `VhciPorts`, and so on).

The five violated properties are quoted from the repository: `PROTOCOL.md:286` (busy means
exported to another client), `batcher.rs:79` (caller must flush first), `wire.rs:11` (the
two ends can never diverge again), `AnyPlugService.kt:376` (re-share when the device is
plugged back in), `bandwidth.rs:14` and `:72` (maximum bytes per second). The findings in
`PROJECT.json` say how the code departs from each.

`ClaimsAgree` allows what an early return leaves behind: an entry that names nobody and a
device that stays claimed. `DeviceLease` has this as its action `Lose`, so the refinement
makes the leak explicit instead of hiding it. For the same reason `PeerGoneEndsSession` claims
the device only for a loop that ended in its read.

What properties of `parts` leave out, because the code does not do it:
`DriversKept` the devices of a claim that failed half-way; `SessionGivesBack` a wake lock
that was taken after a catch block had set the mode to IDLE, and registrations whose listener an
overlapping call dropped; `PortsAreOwn` that an import which loses its port looks for another;
`FileIsMemory` requests that overlapped.

### Statements the models refute without a run of their own

These definitions quote the code or its comments and stand in the modules; TLC finds a
counterexample to each of them.

- `BusyMeansExported` (ExportServer): after an early return the device is busy for ever.
- `DisconnectEndsLoop` (ExportServerRest): nothing records the handle that abort needs.
- `AloneNeverBusy` (ImportClient): the second connection of an import can find the entry
  of its own first connection, and takes the busy answer for a permanent error.
- `DropEntersBackOff` (ImportClient): a stream that ends cleanly ends the task.
- `ForwardIsActive` (ImportClient): the state stays `BackOff` after a successful retry.
- `ExpiredIsFlushed` (UrbBatcher): the timer is looked at only by the next push.
- `ImportCompletes` (UrbFraming): the Android client waits for 4096 bytes of payload.
- `DisconnectStopsForwarding` (Daemon): the task that `import_device` spawned goes on.
- `IdIsStable` (ConfigStore): the id is written by the first PUT, not on first boot, and a
  crash while the file is empty loses it.
- `StopReleasesLock`, `StartOnce` (ServerDiscovery): a `stop` during `openJmDns` leaves the
  lock behind; a job that has ended lets `start` launch another.
- `QueuedIsServed` (WindowsApp): the blocked thread polls the server once at most.
- `TreeIsWhole` (DescriptorTree): a first chunk of 18 bytes counts as a whole tree.
- `TunnelCarriesAll` (CryptoTunnel): encryption adds 32 bytes, the reader allows for 24.
- `FailedClaimRestores` (UsbBackend): a claim that fails at a later interface leaves the
  earlier ones without their drivers.
- `Paired`, `OneAdvertised`, `SessionIsAwake` (ShareResources): `stop` releases the counted
  lock of a URB that is under way; two overlapping registrations can both be up; the catch
  block of an old session releases the wake lock of a new one.
- `ThreadExits` (HotplugMonitor): `None` makes the thread sleep, only a dropped receiver
  ends it, and that it notices with the next event.
- `PortIsFound` (VhciPorts): two imports choose the same port, and one fails though another
  port is free.
- `ScanBrowses` (MdnsScan): the first scan shuts the shared daemon down, the next finds
  nothing.

### Facts met on the way that no property states

- A `stop` that comes before `UsbIpServer.start` claims the device (lines 95 to 103) does not
  see the claim, and the `finally` block closes the socket only: the interfaces stay with the
  runner.
- `Disconnect` of the daemon goes by busid: with the same busid at two servers it ends the
  first in the list.
- No read of client or server has a timeout, so a connection that is lost without a word is
  not noticed; in the models a loss is an event that both ends get to see. `handle_ws` has no
  keepalive either.
- `UsbIpClient.kt` reads 40 bytes of a `RET_SUBMIT` body where the servers write 44, and
  puts OUT data before the 4 bytes of padding.
- `UsbIpCmdSubmit::is_in` looks at a bit of `transfer_flags`; `PROTOCOL.md` and the Android
  server go by the direction field. The runs use commands in which the two agree.
- `PROTOCOL.md` puts the data of `CMD_SUBMIT` at offset 44, the reader at 48.
- `daemon.rs:259` calls `blocking_lock` on a runtime thread: with connections in its config
  file the daemon panics (modelled: `daemon = "panicked"`).
- The parser of descriptor trees does not complete when class-specific descriptors were
  left out of a tree whose `wTotalLength` counts them.
- The hot-plug monitor is not connected to the server.
- `first_free_port_in_sysfs` looks for lines with "Port" and without "Attached".

## 4. Bounds

| run | instance | why it is enough |
|---|---|---|
| `export` | 2 connections, 2 devices, both encryption settings | a conflict takes two tasks; the second device shows that entries do not mix; slots are reused without bound |
| `parts` (reply path), `batcher_lost` | batch of 3, capacity 3, sizes 1, 2, 4, seqnums modulo 3, 4 (3) commands | a batch fills by count and by size, a reply exceeds a whole batch, seqnums wrap and leave gaps |
| `import_safety` | 2 clients, 3 connections, 1 device, 1 retry, symmetric | an old and a new connection of one client against one of the other |
| `import_liveness` | 1 client, 2 connections, 2 retries | no symmetry, since it checks liveness |
| `daemon` | 2 CLI connections, 2 targets with one busid, 2 tasks, 2 ports; discovery: 1 server and 2 jobs | Disconnect by busid can meet the wrong target, and ports run out; an old and a new job |
| `framing_sync` | 1 command, tree of 6 words | one misread message is enough |
| `android`, `android_awaits` | 2 calls | an old and a new runner |
| `programs` | 2 peers and 3 starts; 2 sockets, channel of 1, window of 2, 3 samples; 2 requests for the list, 3 changes; 2 scans, 2 names with 2 addresses; 4 events; records of 3 devices; trees of 2 configurations with 2 interfaces | an old and a new thread; lag and a full window; overtaking answers; a scan that ends during another |
| `parts` | 2 busids that name one device or two, 2 interfaces; 2 commands, data of 0 to 2 words, one word more than asked for; 2 frames a side; reply path as above; 2 sessions; 2 pages, ports 0 to 3 of which 1 and 2 are valid, 3 boots; 4 imports and 2 ports; pool of 1 to 3 with 2 holders; 9 ticks of a 3-tick second | a claim can fail after it has taken something, and meet another claim, transfer or release at each step; a wrong size in the first message is seen in the second; requests overlap, a crash is followed by a restart, ports run out |
| `rate` | as in `parts` | two calls are enough |

Bounds in guards are the constants named `Max...`. `MCDaemon`, `MCPrograms` and `MCParts` hold
parts that share no variable; `part` is chosen in the initial state and says which one moves, so the
states are the sum of the parts' states and not their product. Their liveness properties
have the form `part = "x" => P`.

`CHECK_DEADLOCK FALSE` stands where a run may really end: the client of `UrbBatcher`
disconnects, the daemon exits, the Android calls and the commands of `UrbFraming` are used
up, and the parts of `programs` and `parts` come to rest. `export` and the import runs check
deadlock.

## 5. Fairness

- Tokio polls ready tasks: weak fairness of the steps that wait for nobody.
- Tokio's mutex is FIFO: strong fairness of the removal of an entry, and of the steps that
  answer an import.
- A closed connection has finitely many messages left: strong fairness of leaving the loop.
- A transfer has a timeout of 5 s, sleeps end, a connection attempt has a result.
- Requests of the page are answered infinitely often if they are sent infinitely often,
  though some fail: strong fairness of `GetDevices` and `SetDevices`.
- Android and Windows threads are scheduled, and a scan has a deadline.
- A socket that was closed is noticed at the other end of an event stream (`EndWs`), which is
  assumed of TCP.
- A mutex of the USB stack that is free again and again is obtained: strong fairness of the
  steps that lock one, weak fairness of those that wait for none.

Nothing is assumed of users, of peers, of the network or of a write to an open peer that
does not read; the exceptions are the busy reply, whose eight bytes fit any socket buffer, and
the peer of `UrbFraming`, which reads what is there. The Rust server may keep replies in its
batch: `BlockingEnds` claims that commands are executed and what is written is read, and an
answer to each of them of the Android server only. In `Daemon` nothing is assumed of the servers,
neither that they answer a request nor that they admit a client; `CancelledLoopEnds` therefore
ends a loop or leaves it at an import without an answer. A
stream that forwards URBs may go on for ever: in `Daemon` its end is a step without fairness,
so that a cancelled loop ends because of its token.

## 6. Proofs

Every invariant and every safety action property that a passing run checks is a theorem, and so
are the refinements; liveness is left to TLC.

| module | theorem | states |
|---|---|---|
| `ImportClientProofs` | `TypeCorrect`, `Ownership`, `Exclusion`, `ClaimsAgreement` | the types, and the invariants of `export` |
| | `EntryChanges` | the action property of `export` |
| | `Refinement` | the server implements `DeviceLease` |
| | `ClientTypeCorrect`, `SingleForwarder`, `RetriesBounded`, `RefusedByOthers` | the types, and the invariants of `import_safety` |
| | `ClientsUseServer` | the composition takes only steps of `ExportServer` |
| | `LeaseUnderClients` | so the composition implements `DeviceLease` as well |
| `ServiceProofs` | `DaemonTypeCorrect`, `LoopsAreManaged`, `DuplicatesNeedTwo` | the invariants of `daemon` |
| | `CancelledLoopsWindDown` | the action property of `daemon` |
| | `AndroidTypeCorrect`, `PortsAreFreed` | the invariants of `android` |
| `UsbBackendProofs` | `UsbTypeCorrect`, `HostGetsDriversBack` | the invariants of `parts` about the USB stack |
| | `BackendImplementsLease` | the USB stack implements `DeviceLease`, for any busids, devices and number of interfaces |
| | `NoCircularWait` | its two mutexes are taken in one order, which is why `BlockingEnds` can hold |
| `TransportProofs` | `StreamsAreKept` | the invariant of `parts` about framing and tunnel |
| `CodecProofs` | `WhatIsEncodedIsDecoded` | the invariant of `programs` about TXT records and descriptor trees |
| `ProgramsProofs` | `ProgramsTypes`, `DeliveryIsTrue`, `EveryThreadCanBeStopped` | the other invariants of `programs` |
| `HostProofs` | `RepliesInOrder`, `BatchShape`, `EveryReplyAccounted` | of `parts`: the reply path |
| | `FileFollowsMemory`, `IdIsKept` | of `parts`: the file and the memory; the action property |
| | `PartsTypes`, `TheLimitsHold`, `EveryPortIsOwn` | of `parts`: the types of the parts of a host, the buffers and twice the rate, the ports |
| `AppProofs` | `DiscoveryIsGivenBack` | of `daemon`: discovery |
| | `SessionIsGivenBack` | of `parts`: the resources of a session |

A theorem is about the specification of its component, or, where a property joins several, about
the conjunction of theirs (`StreamsSpec`, `CodecsSpec`, `EachProgramSpec`, `HostSpec`),
which lets them move in any order and at once. The models that TLC runs allow less: a step of
`MCDaemon`, `MCPrograms` or `MCParts` is a step of one part that leaves the others unchanged, so
each of their behaviours is one of every part.
`TransportProofs` and `CodecProofs` begin with the facts on sequences that they need: induction in
the form of sets, and flattened sequences.

Assumptions: the named `ASSUME`s of the modules, which say that constants have their types, that
`None`, `Gone` and the like are no connection, device, target or task, and of a few constants
how they are ordered (`MinSize` and `MaxSize` of the pool, the lengths of messages and
`MaxMessage`). `StreamsAreKept` has two hypotheses besides: `WireClient` (the client
reads what `PROTOCOL.md` says; the other two clients are what `framing_sync` and `ImportCompletes`
refute it for) and `FlagsAgree` (the two direction fields of a command agree; section 3 says
what the code does if they do not). The run `parts` satisfies both.

`SequenceOps` has the four operators on sequences that the models use, with the meaning they
have in the community module `SequencesExt`, which would bring bags and their theorems into the
context of every proof obligation.

**ExportServer.** Exclusion follows from `SessionOwnsEntry`: two sessions on a device would
both be the one its entry names. The claims need more, for another task could drop the
device of a session. `ClaimsFollowSession` says at which places of a task its device is in
which map, and that a task about to remove its entry has released it; with ownership and
`AvailableIsReleased` this is inductive (`IInv`). The refinement takes one step of the lease
for each of `InsertExport`, `ClaimBackend`, `Release`, `RemoveExport` and an early return,
and a stutter for the rest.

**UrbBatcher.** What is on the wire, being written and in the buffer is one stream. It only
grows at its end, by a reply younger than all on it (`StreamInv`). `BatchInv` says what a
reader checks by hand: `last_seqnum` belongs to the last reply of the buffer, and a batch is
being written only while the buffer is empty.

**ImportClient.** Each step of the composition is one of `ExportServer` or leaves it alone,
so its invariant carries over. `StreamInv` ties a client to the task at the other end of its
stream, which turns exclusive sessions into one forwarder. `ReconnectInv` ties the number of
retries to the attempt of the `BackOff` state.

It also gives `RefusedByOthers`: the entry that makes a task answer busy names another
connection, and of those only a closed one can be the client's own.

**UsbBackend.** A handle in the map must hold every interface, but a claim takes them one by
one while another spelling of the busid does the same. `ClaimInv` says that a claim has
the interfaces before the one it is at, `HoldInv` and `HandleInv` that a task has all of them
from the insertion to the removal, `LockInv` that transfers and releases run under the
backend's mutex. `ReturnInv` is what makes `DriversReturn` inductive: a release has given back
the drivers before the interface it is at, or a rival claim has taken them away again.
One step of the lease is taken where the first interface is claimed and where it is given
back, and where a handle enters and leaves the map. `MutexInv` says which calls hold which mutex
at which of their places; from it `NoCircularWait` follows.

**Daemon.** `EntryInv` says that entries have tasks of their own with live tokens, and that a
running loop with a live token has an entry. `CommandInv` says that the task of an import
belongs to its command until the command pushes the entry, and `TargetInv` that no entry of
its CLI connection has the target of that command, however late the push.

**AndroidService.** A coroutine closes what the `serverSocket` field of its runner holds.
That this is the socket it opened itself (`SocketIsListed`) is not obvious, as two coroutines
may start one runner; it follows from the port having one listening socket at a time
(`OnePort`).

**ConfigStore.** While requests do not overlap there is one writer, and the places of that
request say whether the file is empty, ahead of the memory, or the same (`OneByOne`).
`IdIsCopied` says that every copy has the id of the memory, so no overlap can change it.

**WindowsApp.** `running` and the sender change together, and threads are numbered as they
are spawned; so a thread without a signal is the one whose sender the controller has.

**UrbFraming.** The invariant `FramingInv` says what each stream consists of: the words of the
messages that have been written and not yet read, one message after the other (`Transit`), and
before them what follows `OP_REP_IMPORT` if the client has still to read it. A reader therefore
meets a header at the front, and the lemmas about `Words` say that what it takes by its own
rules, from direction, status and length, are exactly the words of that message.

**CryptoTunnel.** `Exchanged` says which public keys a side has written and read, so that both
derive one key and a frame is refused only for its length; `Carried` that what a side has written
is what the other has read, and the frames between them.

**EventStream, DevicePage, MdnsScan, HotplugMonitor.** What is shown is older than anything on
the way to the open socket, and that is older than what its receiver takes next (`WireInv`);
there is one socket at most (`OneSocket`). An action of the page that waits for a list has a
request of its own under way (`FollowsItsList`). `FirstReportWins` and `EventsInOrder` are
inductive with the types, the second with what the polling thread holds (`ThreadHolds`).

**DescriptorTree, TxtRecord.** A parser is a recursive function over its text. `After(raw, len, p)`
says that it has come to `p` after the descriptors `raw`; the lemmas follow it over an endpoint, an
interface, a configuration and all of them, each by induction on what is appended. The
induction is over a set of numbers: one that holds 0 and the successor of each member holds all
(`SetInduction`, from the least number outside it), which needs no operator as a parameter. The
lengths that the parser goes by are sums, and `LengthInterfaces` shows that they are
those of `wTotalLength` if nothing is omitted.

**ServerDiscovery.** While no stop has overtaken a thread, the two fields know of every lock and
session, the jobs before the current one are quiet, and what a `stop` has passed is gone
(`CleanSoFar`). Jobs are numbered as they are launched (`Launched`), and while `stop` runs there
is none to start another beside (`StopHasNoJob`).

**ShareResources.** The count of the transfers' lock is at most the number of URBs under way
(`HoldsAreUrbs`): `stop` releases it once more than it was acquired, never less.

**Limits.** In the pool, blank buffers are inductive with the types. For the bucket `Credit`
accounts for what was in it at the start, came with the clock up to the last refill, and was
slept for. For the ports, a port that was chosen was free when it was looked for
(`ChoiceWasFree`).

**Only model-checked:** liveness, which the prover cannot do (`PeerGoneEndsSession`,
`ImportSettles`, `CancelledLoopEnds`, `StopEndsLoops`, `BlockingEnds`, `ConsoleCatchesUp`,
`EndingsEnd`), and the statements that do not hold (section 3), for which TLC has
counterexamples.

## 7. Abstractions

- In `ExportServer` a busid is a device; several spellings of one are in `UsbBackend`. There
  interfaces are taken in ascending order, and a device that is pulled does not come back
  (plugged in again it has another address).
- `ShareResources` and `AndroidService` are separate: the first lets a session end at any
  time, which the second makes precise.
- A transfer is one step that succeeds or fails; its 5 s timeout is a failure.
- Delays are "over" or not; how long they are is left out, but for the token bucket.
- The bytes of descriptors, names and payloads are left out, but for the fields that a
  parser goes by. Data is in whole words in `UrbFraming`, descriptors are whole in
  `DescriptorTree`, and a tree is shorter than 512 bytes. In the code a chunk that ends
  inside an interface makes the parser panic; this is not modelled.
- The estimate of the URB rate in the pool is any value in its range.

## 8. Not modelled

The IOKit and Windows USB backends (calls into the operating system behind the interface
that `ExportServer` uses), metrics and the benchmark (nothing reads them back), command
lines, mDNS browsing in the Rust client (one scan with a daemon of its own), layout and
themes of the Android and web interfaces, the JNI bridge (no native library in the
repository), packaging and CI scripts.

Partly modelled: the Windows program (its device list and command line change no shared
state), the TXT records (one property of them) and the descriptor tree (no chunk ends inside
a descriptor).

## 9. What is left

1. an abstract specification of a managed connection that `Daemon` implements, and a
   composition of `Daemon` with `ImportClient` in place of the external server;
2. chunks that end inside a descriptor, in `DescriptorTree`;
3. `HotplugMonitor` composed with `ExportServer` once the server uses it.
