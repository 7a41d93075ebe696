--------------------------- MODULE ServerDiscovery ---------------------------
(***************************************************************************)
(* Discovery of servers on Android (ServerDiscovery.kt): start, stop and   *)
(* restart, on the main thread, against the jobs they launch on            *)
(* Dispatchers.IO and the callbacks of JmDNS.                              *)
(*                                                                         *)
(* openJmDns blocks, so a cancelled job runs it to its end; mergeServer    *)
(* and serviceRemoved read the list and write it in two steps.  A server   *)
(* is its host:port.  Job j's lock and JmDNS session are numbered j.       *)
(***************************************************************************)
EXTENDS Naturals

CONSTANTS
    Server,     \* host:port of servers on the network
    Named,      \* those whose host is the name in mDNS, having no address
    MaxJobs,    \* bound on launched jobs
    NoServer

ASSUME DiscoveryAssumption ==
    Named \subseteq Server /\ NoServer \notin Server /\ MaxJobs \in Nat \ {0}

Job == 1..MaxJobs
Writer == Job \X {"scan", "last", "mdns"}   \* threads that change the list

VARIABLES
    main,        \* the main thread: idle, or the step of stop it is at
    again,       \* stop is part of restart
    job,         \* listenerJob, 0 for null
    jobs,        \* jobs launched
    cancelledJobs,
    jobpc,       \* a job: open, create (both in openJmDns), wait, subnet, scan
                 \* (both in SubnetScanner.scan), merge
    found,       \* the endpoints of its scan that are not merged
    last,        \* its child probeLastKnown: load, merge, done
    lock, held,  \* multicastLock, 0 for null; the locks that are held
    jmdns, live, \* the field jmdns, 0 for null; the sessions that are open
    servers,     \* _servers
    write,       \* the list that a thread is about to store, or NoServer
    known,       \* LastKnownServerStore
    clean        \* history: every start came after a stop, and every stop met
                 \* no thread in openJmDns or merging

discoveryVars == <<main, again, job, jobs, cancelledJobs, jobpc, found, last, lock, held,
                   jmdns, live, servers, write, known, clean>>
threads == <<jobpc, found, last>>
field == <<lock, held, jmdns, live>>
control == <<main, again, job, jobs, cancelledJobs, clean>>

DiscoveryTypeOK ==
    /\ main \in {"idle", "close", "release", "clear"}
    /\ again \in BOOLEAN /\ clean \in BOOLEAN
    /\ job \in 0..MaxJobs /\ jobs \in 0..MaxJobs /\ cancelledJobs \subseteq Job
    /\ jobpc \in [Job -> {"none", "open", "create", "wait", "subnet", "scan", "merge",
                         "done"}]
    /\ found \in [Job -> SUBSET Server]
    /\ last \in [Job -> {"none", "load", "merge", "done"}]
    /\ lock \in 0..MaxJobs /\ held \subseteq Job
    /\ jmdns \in 0..MaxJobs /\ live \subseteq Job
    /\ servers \subseteq Server
    /\ write \in [Writer -> {NoServer} \cup SUBSET Server]
    /\ known \in Server \cup {NoServer}

DiscoveryInit ==
    /\ main = "idle" /\ again = FALSE /\ clean = TRUE
    /\ job = 0 /\ jobs = 0 /\ cancelledJobs = {}
    /\ jobpc = [j \in Job |-> "none"] /\ found = [j \in Job |-> {}]
    /\ last = [j \in Job |-> "none"]
    /\ lock = 0 /\ held = {} /\ jmdns = 0 /\ live = {}
    /\ servers = {} /\ write = [w \in Writer |-> NoServer]
    /\ known = NoServer

\* listenerJob?.isActive: a job is active until it and its child are done.
Active(j) ==
    /\ jobpc[j] # "none" /\ j \notin cancelledJobs
    /\ ~(jobpc[j] = "done" /\ last[j] = "done")

(***************************************************************************)
(* The main thread                                                         *)
(***************************************************************************)
Launch ==
    /\ jobs < MaxJobs
    /\ jobs' = jobs + 1 /\ job' = jobs'
    /\ jobpc' = [jobpc EXCEPT ![jobs'] = "open"]
    /\ last' = [last EXCEPT ![jobs'] = "load"]

\* Mutant: the job that is there is not looked at.
MutStartDiscovery ==
    /\ main = "idle"
    /\ Launch
    /\ clean' = (clean /\ job = 0)
    /\ UNCHANGED <<main, again, cancelledJobs, found, field, servers, write, known>>

\* start.  A job that is done is no reason not to launch another.
StartDiscovery ==
    /\ main = "idle"
    /\ job # 0 => ~Active(job)
    /\ Launch
    /\ clean' = (clean /\ job = 0)
    /\ UNCHANGED <<main, again, cancelledJobs, found, field, servers, write, known>>

\* stop, from a screen or from restart: the job is cancelled,
StopDiscovery(restart) ==
    /\ main = "idle"
    /\ restart => jobs < MaxJobs
    /\ main' = "close" /\ again' = restart
    /\ cancelledJobs' = cancelledJobs \cup ({job} \ {0}) /\ job' = 0
    /\ clean' = (clean /\ \A j \in Job : jobpc[j] \notin {"open", "create", "merge"})
    /\ UNCHANGED <<jobs, threads, field, servers, write, known>>

\* the session is closed,
CloseJmDns ==
    /\ main = "close"
    /\ main' = "release"
    /\ live' = live \ {jmdns} /\ jmdns' = 0
    /\ UNCHANGED <<again, job, jobs, cancelledJobs, clean, threads, lock, held, servers,
                   write, known>>

\* Mutant: the field is cleared before the lock is released through it.
MutReleaseLock ==
    /\ main = "release"
    /\ main' = "clear"
    /\ lock' = 0
    /\ UNCHANGED <<again, job, jobs, cancelledJobs, clean, threads, held, jmdns, live,
                   servers, write, known>>

\* the lock is released,
ReleaseLock ==
    /\ main = "release"
    /\ main' = "clear"
    /\ held' = held \ {lock} /\ lock' = 0
    /\ UNCHANGED <<again, job, jobs, cancelledJobs, clean, threads, jmdns, live, servers,
                   write, known>>

\* the list is emptied, and restart goes on with start.
ClearServers ==
    /\ main = "clear"
    /\ main' = "idle" /\ again' = FALSE
    /\ servers' = {}
    /\ clean' = (clean /\ \A w \in Writer : write[w] = NoServer)
    /\ IF again THEN Launch ELSE UNCHANGED <<job, jobs, jobpc, last>>
    /\ UNCHANGED <<cancelledJobs, found, field, write, known>>

\* saveLastKnown, when a client is started.
SaveLastKnown(s) ==
    /\ known' = s
    /\ UNCHANGED <<control, threads, field, servers, write>>

(***************************************************************************)
(* A job                                                                   *)
(***************************************************************************)
\* openJmDns: the lock first.  withContext does not begin in a cancelled job.
AcquireLock(j) ==
    /\ jobpc[j] = "open" /\ j \notin cancelledJobs
    /\ jobpc' = [jobpc EXCEPT ![j] = "create"]
    /\ held' = held \cup {j} /\ lock' = j
    /\ UNCHANGED <<control, found, last, jmdns, live, servers, write, known>>

\* JmDNS.create and addServiceListener; create may throw.
CreateJmDns(j) ==
    /\ jobpc[j] = "create"
    /\ jobpc' = [jobpc EXCEPT ![j] = "wait"]
    /\ \/ live' = live \cup {j} /\ jmdns' = j
       \/ UNCHANGED <<live, jmdns>>
    /\ UNCHANGED <<control, found, last, lock, held, servers, write, known>>

\* After the delay the subnet is scanned, if there is nothing in the list.
DelayEnds(j) ==
    /\ jobpc[j] = "wait" /\ j \notin cancelledJobs
    /\ jobpc' = [jobpc EXCEPT ![j] = IF servers = {} THEN "subnet" ELSE "done"]
    /\ UNCHANGED <<control, found, last, field, servers, write, known>>

\* scan: there is no gateway on WiFi, or its subnet is not a /24,
NoSubnet(j) ==
    /\ jobpc[j] = "subnet" /\ j \notin cancelledJobs
    /\ jobpc' = [jobpc EXCEPT ![j] = "done"]
    /\ UNCHANGED <<control, found, last, field, servers, write, known>>

\* or the hosts beside the gateway are the candidates.
ExpandHosts(j) ==
    /\ jobpc[j] = "subnet" /\ j \notin cancelledJobs
    /\ jobpc' = [jobpc EXCEPT ![j] = "scan"]
    /\ UNCHANGED <<control, found, last, field, servers, write, known>>

\* RestProbe.probe: which servers answer in time, with a status it can read.
Answers == SUBSET Server

\* One chunk of the hosts is probed in parallel, and all its answers awaited.
ProbeBatch(j) ==
    /\ jobpc[j] = "scan" /\ j \notin cancelledJobs
    /\ \E answers \in Answers : found' = [found EXCEPT ![j] = @ \cup answers]
    /\ UNCHANGED <<control, jobpc, last, field, servers, write, known>>

\* The last chunk was probed.
ScanDone(j) ==
    /\ jobpc[j] = "scan" /\ j \notin cancelledJobs
    /\ jobpc' = [jobpc EXCEPT ![j] = IF found[j] = {} THEN "done" ELSE "merge"]
    /\ UNCHANGED <<control, found, last, field, servers, write, known>>

\* Cancellation is noticed where the job suspends, between two chunks too; what
\* was found until then is lost.
EndCancelled(j) ==
    /\ j \in cancelledJobs /\ jobpc[j] \in {"open", "wait", "subnet", "scan"}
    /\ jobpc' = [jobpc EXCEPT ![j] = "done"]
    /\ found' = [found EXCEPT ![j] = {}]
    /\ UNCHANGED <<control, last, field, servers, write, known>>

\* mergeEndpoint for the endpoints of the scan, one after the other.
MergeScanned(j, s) ==
    /\ jobpc[j] = "merge" /\ s \in found[j] /\ write[<<j, "scan">>] = NoServer
    /\ found' = [found EXCEPT ![j] = @ \ {s}]
    /\ write' = [write EXCEPT ![<<j, "scan">>] = servers \cup {s}]
    /\ UNCHANGED <<control, jobpc, last, field, servers, known>>

\* probeLastKnown does not probe: the stored endpoint goes into the list.
MergeLast(j) ==
    /\ last[j] = "load"
    /\ IF known = NoServer \/ j \in cancelledJobs
       THEN last' = [last EXCEPT ![j] = "done"] /\ UNCHANGED write
       ELSE /\ last' = [last EXCEPT ![j] = "merge"]
            /\ write' = [write EXCEPT ![<<j, "last">>] = servers \cup {known}]
    /\ UNCHANGED <<control, jobpc, found, field, servers, known>>

(***************************************************************************)
(* JmDNS                                                                   *)
(***************************************************************************)
\* serviceResolved.
ServiceResolved(j, s) ==
    /\ j \in live /\ write[<<j, "mdns">>] = NoServer
    /\ write' = [write EXCEPT ![<<j, "mdns">>] = servers \cup {s}]
    /\ UNCHANGED <<control, threads, field, servers, known>>

\* serviceRemoved: an entry whose host is an address does not match the name of
\* the service, and stays.
ServiceRemoved(j, s) ==
    /\ j \in live /\ write[<<j, "mdns">>] = NoServer
    /\ s \in Named \cap servers
    /\ write' = [write EXCEPT ![<<j, "mdns">>] = servers \ {s}]
    /\ UNCHANGED <<control, threads, field, servers, known>>

\* The assignment of _servers.value.
StoreServers(w) ==
    /\ write[w] # NoServer
    /\ servers' = write[w]
    /\ write' = [write EXCEPT ![w] = NoServer]
    /\ jobpc' = [j \in Job |-> IF w = <<j, "scan">> /\ found[j] = {} THEN "done" ELSE jobpc[j]]
    /\ last' = [j \in Job |-> IF w = <<j, "last">> THEN "done" ELSE last[j]]
    /\ UNCHANGED <<control, found, field, known>>

DiscoveryNext ==
    \/ StartDiscovery \/ CloseJmDns \/ ReleaseLock \/ ClearServers
    \/ \E restart \in BOOLEAN : StopDiscovery(restart)
    \/ \E s \in Server : SaveLastKnown(s)
    \/ \E j \in Job :
         \/ AcquireLock(j) \/ CreateJmDns(j) \/ DelayEnds(j)
         \/ NoSubnet(j) \/ ExpandHosts(j) \/ ProbeBatch(j) \/ ScanDone(j)
         \/ EndCancelled(j) \/ MergeLast(j)
         \/ \E s \in Server : \/ MergeScanned(j, s)
                              \/ ServiceResolved(j, s) \/ ServiceRemoved(j, s)
    \/ \E w \in Writer : StoreServers(w)

DiscoverySpec == DiscoveryInit /\ [][DiscoveryNext]_discoveryVars

-----------------------------------------------------------------------------
\* "Tear down the JmDNS session and release the multicast lock": while no start
\* overtook a stop, and no stop met a thread in openJmDns or merging, a stop
\* leaves no lock, no session and no entry behind, wherever else the job was and
\* whether or not JmDNS could be created.
StopIsClean ==
    clean /\ main = "idle" /\ job = 0 => held = {} /\ live = {} /\ servers = {}

\* start launches no second job beside an active one, and stop leaves none.
OneActiveJob == \A j \in Job : Active(j) => j = job

\* "holding the WiFi MulticastLock has a battery cost, so [stop] always releases
\* it."  It does not hold: a job that is inside openJmDns when stop runs goes on to
\* take the lock, and nothing releases it.
StopReleasesLock ==
    /\ main = "idle" /\ job = 0
    /\ \A j \in Job : jobpc[j] \notin {"open", "create"}
    => held = {}

\* "Safe to call multiple times - only the first call has any effect until
\* [stop] is invoked."
StartOnce == [][main = "idle" /\ job # 0 => job' \in {job, 0}]_discoveryVars

\* There is one active job at most, and a stop leaves no lock, no session and no
\* entry, if it met no thread in openJmDns or merging.
DiscoveryGivesBack == DiscoveryTypeOK /\ OneActiveJob /\ StopIsClean

=============================================================================
