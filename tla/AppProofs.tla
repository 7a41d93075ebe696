----------------------------- MODULE AppProofs ------------------------------
(***************************************************************************)
(* Proofs about what the Android app takes and gives back, for any number  *)
(* of jobs, servers and sessions: its discovery of servers, and the        *)
(* resources of a session.                                                 *)
(***************************************************************************)
EXTENDS ServerDiscovery, ShareResources, FiniteSetTheorems, TLAPS

-----------------------------------------------------------------------------
(***************************************************************************)
(* ServerDiscovery                                                         *)
(***************************************************************************)
\* While stop runs there is no job to start another beside.
StopHasNoJob == main # "idle" => job = 0

\* Jobs are numbered as they are launched, one that has not been launched has no child,
\* and what is about to store a list is merging.
Launched ==
    \A j \in Job : /\ j > jobs => jobpc[j] = "none"
                   /\ jobpc[j] = "none" => last[j] = "none"
                   /\ write[<<j, "scan">>] # NoServer => jobpc[j] = "merge"
                   /\ write[<<j, "last">>] # NoServer => last[j] = "merge"

\* A job that will not take a lock, a session or an entry any more.
Quiet(j) ==
    /\ jobpc[j] \in {"none", "wait", "subnet", "scan", "done"}
    /\ jobpc[j] # "none" => j \in cancelledJobs

\* With a clean history the fields know of every lock and session, the jobs before
\* the current one are quiet, and what a stop has passed is gone.
CleanSoFar ==
    clean =>
      /\ \A j \in Job : j # job => Quiet(j)
      /\ held \subseteq {lock} /\ live \subseteq {jmdns}
      /\ job # 0 /\ jobpc[job] = "open" => held = {}
      /\ job # 0 /\ jobpc[job] \in {"open", "create"} => live = {}
      /\ main \in {"release", "clear"} => live = {}
      /\ main = "clear" => held = {}
      /\ main = "idle" /\ job = 0 => /\ held = {} /\ live = {} /\ servers = {}
                                     /\ \A w \in Writer : write[w] = NoServer

\* The inductive invariant.
DInv == DiscoveryTypeOK /\ OneActiveJob /\ StopHasNoJob /\ Launched /\ CleanSoFar

\* Writers by name.
LEMMA Writers == \A j \in Job, k \in {"scan", "last", "mdns"} : <<j, k>> \in Writer
  BY DEF Writer

\* Nothing has been discovered at the start.
LEMMA InitDInv == DiscoveryInit => DInv
<1> SUFFICES ASSUME DiscoveryInit PROVE DInv
  OBVIOUS
<1>1. again \in BOOLEAN /\ clean \in BOOLEAN
  BY Zenon DEF DiscoveryInit
<1>2. DiscoveryTypeOK
  BY <1>1, DiscoveryAssumption DEF DiscoveryInit, DiscoveryTypeOK, Job
<1>3. OneActiveJob /\ StopHasNoJob
  BY DEF DiscoveryInit, OneActiveJob, StopHasNoJob, Active
<1>4. Launched
  BY Writers, Zenon DEF DiscoveryInit, Launched
<1>5. CleanSoFar
  BY DEF DiscoveryInit, CleanSoFar, Quiet
<1>6. QED
  BY <1>2, <1>3, <1>4, <1>5 DEF DInv

\* A job is launched when none is active.
LEMMA LaunchFacts ==
  ASSUME DInv, Launch, \A j \in Job : ~Active(j), UNCHANGED <<cancelledJobs, write>>
  PROVE  /\ jobs' \in Job /\ job' = jobs' /\ jobs' \in 0..MaxJobs /\ job' # 0
         /\ jobpc' = [jobpc EXCEPT ![job'] = "open"]
         /\ last' = [last EXCEPT ![job'] = "load"]
         /\ OneActiveJob' /\ Launched'
<1>1. jobs + 1 \in Job /\ jobs + 1 \in 0..MaxJobs /\ jobs + 1 # 0
  BY DiscoveryAssumption DEF DInv, DiscoveryTypeOK, Launch, Job
<1>2. /\ jobs' = jobs + 1 /\ job' = jobs + 1
      /\ jobpc' = [jobpc EXCEPT ![jobs + 1] = "open"]
      /\ last' = [last EXCEPT ![jobs + 1] = "load"]
  BY DEF Launch
<1>3. jobpc \in [Job -> {"none", "open", "create", "wait", "subnet", "scan", "merge", "done"}]
      /\ last \in [Job -> {"none", "load", "merge", "done"}]
  BY DEF DInv, DiscoveryTypeOK
<1>4. OneActiveJob'
  <2> SUFFICES ASSUME NEW j \in Job, Active(j)', j # job' PROVE FALSE
    BY DEF OneActiveJob
  <2>1. Active(j)
    BY <1>1, <1>2, <1>3 DEF Active
  <2>2. QED
    BY <2>1
<1>5. Launched'
  <2>1. jobs \in Nat /\ Job \subseteq Nat
    BY DiscoveryAssumption DEF DInv, DiscoveryTypeOK, Job
  <2>2. \A j \in Job : /\ j > jobs => jobpc[j] = "none"
                       /\ jobpc[j] = "none" => last[j] = "none"
                       /\ write[<<j, "scan">>] # NoServer => jobpc[j] = "merge"
                       /\ write[<<j, "last">>] # NoServer => last[j] = "merge"
    BY Zenon DEF DInv, Launched
  <2>3. jobpc[jobs + 1] = "none" /\ last[jobs + 1] = "none"
    <3>1. jobs + 1 > jobs
      BY <2>1
    <3>2. QED
      BY <1>1, <2>2, <3>1, Zenon
  <2>4. ASSUME NEW j \in Job
        PROVE  /\ j > jobs' => jobpc'[j] = "none"
               /\ jobpc'[j] = "none" => last'[j] = "none"
               /\ write'[<<j, "scan">>] # NoServer => jobpc'[j] = "merge"
               /\ write'[<<j, "last">>] # NoServer => last'[j] = "merge"
    <3>1. CASE j = jobs + 1
      BY <1>1, <1>2, <1>3, <2>1, <2>2, <2>3, <3>1
    <3>2. CASE j # jobs + 1
      BY <1>1, <1>2, <1>3, <2>1, <2>2, <3>2
    <3>3. QED
      BY <3>1, <3>2
  <2>5. QED
    BY <2>4, Zenon DEF Launched
<1>6. QED
  BY <1>1, <1>2, <1>4, <1>5

\* start.
LEMMA StartStepD == ASSUME DInv, StartDiscovery PROVE DInv'
<1>1. \A j \in Job : ~Active(j)
  BY DiscoveryAssumption DEF StartDiscovery, DInv, OneActiveJob, Job
<1>2. /\ main = "idle" /\ clean' = (clean /\ job = 0)
      /\ UNCHANGED <<main, again, cancelledJobs, found, servers, write, known>>
      /\ UNCHANGED <<lock, held, jmdns, live>>
  BY DEF StartDiscovery, field
<1>3. /\ jobs' \in Job /\ job' = jobs' /\ jobs' \in 0..MaxJobs /\ job' # 0
      /\ jobpc' = [jobpc EXCEPT ![job'] = "open"]
      /\ last' = [last EXCEPT ![job'] = "load"]
      /\ OneActiveJob' /\ Launched'
  BY <1>1, <1>2, LaunchFacts, Zenon DEF StartDiscovery
<1>4. DiscoveryTypeOK'
  <2>1. clean' \in BOOLEAN
    BY <1>2
  <2>2. QED
    BY <1>2, <1>3, <2>1 DEF DInv, DiscoveryTypeOK
<1>5. StopHasNoJob'
  BY <1>2 DEF StopHasNoJob
<1>6. CleanSoFar'
  <2> SUFFICES ASSUME clean' PROVE CleanSoFar'
    BY DEF CleanSoFar
  <2>1. clean /\ job = 0
    BY <1>2, Zenon
  <2>2. \A j \in Job : j # job' => Quiet(j)'
    <3>1. \A j \in Job : Quiet(j)
      BY <2>1, DiscoveryAssumption DEF DInv, CleanSoFar, Job
    <3>2. QED
      BY <1>2, <1>3, <3>1 DEF Quiet, DInv, DiscoveryTypeOK
  <2>3. held = {} /\ live = {}
    BY <1>2, <2>1 DEF DInv, CleanSoFar
  <2>4. QED
    BY <1>2, <1>3, <2>2, <2>3 DEF CleanSoFar
<1>7. QED
  BY <1>3, <1>4, <1>5, <1>6, Zenon DEF DInv

\* stop, its first step.
LEMMA StopStepD == ASSUME DInv, NEW restart \in BOOLEAN, StopDiscovery(restart) PROVE DInv'
<1>1. /\ main = "idle" /\ main' = "close" /\ again' = restart
      /\ cancelledJobs' = cancelledJobs \cup ({job} \ {0}) /\ job' = 0
      /\ clean' = (clean /\ \A j \in Job : jobpc[j] \notin {"open", "create", "merge"})
      /\ UNCHANGED <<jobs, servers, write, known, jobpc, found, last, lock, held, jmdns, live>>
  BY Zenon DEF StopDiscovery, threads, field
<1>2. DiscoveryTypeOK'
  <2>1. clean' \in BOOLEAN /\ again' \in BOOLEAN
    BY <1>1
  <2>2. cancelledJobs' \subseteq Job
    <3>1. cancelledJobs \subseteq Job /\ job \in Job \cup {0}
      BY DEF DInv, DiscoveryTypeOK, Job
    <3>2. QED
      BY <1>1, <3>1, Zenon
  <2>3. QED
    BY <1>1, <2>1, <2>2, DiscoveryAssumption DEF DInv, DiscoveryTypeOK
<1>3. OneActiveJob'
  BY <1>1, DiscoveryAssumption, Zenon DEF DInv, OneActiveJob, Active, Job
<1>4. StopHasNoJob' /\ Launched'
  BY <1>1 DEF DInv, StopHasNoJob, Launched
<1>5. CleanSoFar'
  <2> SUFFICES ASSUME clean' PROVE CleanSoFar'
    BY DEF CleanSoFar
  <2>1. clean /\ \A j \in Job : jobpc[j] \notin {"open", "create", "merge"}
    BY <1>1, Zenon
  <2>2. \A j \in Job : Quiet(j)'
    BY <1>1, <2>1, DiscoveryAssumption DEF DInv, CleanSoFar, Quiet, DiscoveryTypeOK, Job
  <2>3. QED
    BY <1>1, <2>1, <2>2, Zenon DEF DInv, CleanSoFar
<1>6. QED
  BY <1>2, <1>3, <1>4, <1>5 DEF DInv

\* The session is closed, then the lock released.
LEMMA CloseStepD == ASSUME DInv, CloseJmDns \/ ReleaseLock PROVE DInv'
<1> USE DEF CloseJmDns, ReleaseLock, threads
<1>1. UNCHANGED <<again, job, jobs, cancelledJobs, clean, jobpc, found, last, servers, write, known>>
      /\ main \in {"close", "release"} /\ main' \in {"release", "clear"}
  BY Zenon
<1>2. DiscoveryTypeOK'
  BY <1>1, DiscoveryAssumption DEF DInv, DiscoveryTypeOK
<1>3. OneActiveJob' /\ StopHasNoJob' /\ Launched'
  BY <1>1, Zenon DEF DInv, OneActiveJob, Active, StopHasNoJob, Launched
<1>4. CleanSoFar'
  BY <1>1 DEF DInv, CleanSoFar, Quiet, StopHasNoJob
<1>5. QED
  BY <1>2, <1>3, <1>4 DEF DInv

\* The list is emptied, and restart launches a job.
LEMMA ClearStepD == ASSUME DInv, ClearServers PROVE DInv'
<1>1. /\ main = "clear" /\ main' = "idle" /\ again' = FALSE /\ servers' = {}
      /\ clean' = (clean /\ \A w \in Writer : write[w] = NoServer)
      /\ UNCHANGED <<cancelledJobs, found, write, known, lock, held, jmdns, live>>
  BY DEF ClearServers, field
<1>2. job = 0
  BY <1>1 DEF DInv, StopHasNoJob
<1>3. clean' \in BOOLEAN /\ again' \in BOOLEAN
  BY <1>1, Zenon
<1>4. StopHasNoJob'
  BY <1>1 DEF StopHasNoJob
<1>5. CASE ~again
  <2>1. UNCHANGED <<job, jobs, jobpc, last>>
    BY <1>5, Zenon DEF ClearServers
  <2>2. DiscoveryTypeOK'
    BY <1>1, <1>3, <2>1, Zenon DEF DInv, DiscoveryTypeOK
  <2>3. OneActiveJob' /\ Launched'
    BY <1>1, <2>1 DEF DInv, OneActiveJob, Active, Launched
  <2>4. CleanSoFar'
    BY <1>1, <1>2, <2>1, Zenon DEF DInv, CleanSoFar, Quiet
  <2>5. QED
    BY <1>4, <2>2, <2>3, <2>4 DEF DInv
<1>6. CASE again
  <2>1. \A j \in Job : ~Active(j)
    BY <1>2, DiscoveryAssumption DEF DInv, OneActiveJob, Job
  <2>2. /\ jobs' \in Job /\ job' = jobs' /\ jobs' \in 0..MaxJobs /\ job' # 0
        /\ jobpc' = [jobpc EXCEPT ![job'] = "open"]
        /\ last' = [last EXCEPT ![job'] = "load"]
        /\ OneActiveJob' /\ Launched'
    BY <1>1, <1>6, <2>1, LaunchFacts, Zenon DEF ClearServers
  <2>3. DiscoveryTypeOK'
    BY <1>1, <1>3, <2>2, Zenon DEF DInv, DiscoveryTypeOK
  <2>4. CleanSoFar'
    <3> SUFFICES ASSUME clean' PROVE CleanSoFar'
      BY DEF CleanSoFar
    <3>1. clean
      BY <1>1, Zenon
    <3>2. \A j \in Job : Quiet(j)
      BY <1>2, <3>1, DiscoveryAssumption DEF DInv, CleanSoFar, Job
    <3>3. \A j \in Job : j # job' => Quiet(j)'
      BY <1>1, <2>2, <3>2, Zenon DEF Quiet, DInv, DiscoveryTypeOK
    <3>4. held = {} /\ live = {}
      BY <1>1, <3>1 DEF DInv, CleanSoFar
    <3>5. QED
      BY <1>1, <2>2, <3>3, <3>4 DEF CleanSoFar
  <2>5. QED
    BY <1>4, <2>2, <2>3, <2>4, Zenon DEF DInv
<1>7. QED
  BY <1>5, <1>6

\* openJmDns takes the lock and creates the session.
LEMMA OpenSteps == ASSUME DInv, NEW j \in Job, AcquireLock(j) \/ CreateJmDns(j) PROVE DInv'
<1>1. /\ UNCHANGED <<main, again, job, jobs, cancelledJobs, clean, found, last, servers, write, known>>
      /\ jobpc[j] \in {"open", "create"}
      /\ jobpc' = [jobpc EXCEPT ![j] = IF jobpc[j] = "open" THEN "create" ELSE "wait"]
  BY Zenon DEF AcquireLock, CreateJmDns, control
<1>2. DiscoveryTypeOK'
  <2>1. j \in 0..MaxJobs
    BY DiscoveryAssumption DEF Job
  <2>2. /\ lock' \in {lock, j} /\ jmdns' \in {jmdns, j}
        /\ held' \subseteq held \cup {j} /\ live' \subseteq live \cup {j}
    BY Zenon DEF AcquireLock, CreateJmDns
  <2>3. /\ lock' \in 0..MaxJobs /\ jmdns' \in 0..MaxJobs
        /\ held' \subseteq Job /\ live' \subseteq Job
    BY <2>1, <2>2, Zenon DEF DInv, DiscoveryTypeOK
  <2>4. jobpc' \in [Job -> {"none", "open", "create", "wait", "subnet", "scan", "merge", "done"}]
    BY <1>1, Zenon DEF DInv, DiscoveryTypeOK
  <2>5. QED
    BY <1>1, <2>3, <2>4 DEF DInv, DiscoveryTypeOK
<1>3. OneActiveJob' /\ StopHasNoJob' /\ Launched'
  BY <1>1 DEF DInv, DiscoveryTypeOK, OneActiveJob, Active, StopHasNoJob, Launched
<1>4. CleanSoFar'
  <2> SUFFICES ASSUME clean' PROVE CleanSoFar'
    BY DEF CleanSoFar
  <2>1. clean /\ j = job /\ job # 0 /\ main = "idle"
    BY <1>1, DiscoveryAssumption DEF DInv, CleanSoFar, Quiet, StopHasNoJob, Job
  <2>2. \A k \in Job : k # job' => Quiet(k)'
    BY <1>1, <2>1, Zenon DEF DInv, CleanSoFar, Quiet, DiscoveryTypeOK
  <2>3. CASE AcquireLock(j)
    BY <1>1, <2>1, <2>2, <2>3, Zenon DEF AcquireLock, DInv, CleanSoFar, DiscoveryTypeOK
  <2>4. CASE CreateJmDns(j)
    BY <1>1, <2>1, <2>2, <2>4, Zenon DEF CreateJmDns, DInv, CleanSoFar, DiscoveryTypeOK
  <2>5. QED
    BY <2>3, <2>4
<1>5. QED
  BY <1>2, <1>3, <1>4, Zenon DEF DInv

\* The later steps of a job before it merges, and a client that is started.
LEMMA ScanSteps ==
  ASSUME DInv,
         \/ \E s \in Server : SaveLastKnown(s)
         \/ \E j \in Job : \/ DelayEnds(j) \/ NoSubnet(j) \/ ExpandHosts(j)
                             \/ ProbeBatch(j) \/ ScanDone(j) \/ EndCancelled(j)
  PROVE  DInv'
<1>1. /\ UNCHANGED <<main, again, job, jobs, cancelledJobs, clean, last, servers, write>>
      /\ UNCHANGED <<lock, held, jmdns, live>>
  BY Zenon DEF SaveLastKnown, DelayEnds, NoSubnet, ExpandHosts, ProbeBatch, ScanDone,
         EndCancelled, control, threads, field
<1>2. /\ known' \in Server \cup {NoServer} /\ found' \in [Job -> SUBSET Server]
      /\ jobpc' \in [Job -> {"none", "open", "create", "wait", "subnet", "scan", "merge", "done"}]
  BY DEF DInv, DiscoveryTypeOK, SaveLastKnown, DelayEnds, NoSubnet, ExpandHosts, ProbeBatch, ScanDone,
         EndCancelled, threads, Answers
<1>3. \A k \in Job :
        \/ jobpc'[k] = jobpc[k]
        \/ /\ jobpc[k] \in {"wait", "subnet", "scan"} /\ k \notin cancelledJobs
           /\ jobpc'[k] \in {"subnet", "scan", "merge", "done"}
        \/ jobpc[k] \in {"open", "wait", "subnet", "scan"} /\ k \in cancelledJobs /\ jobpc'[k] = "done"
  BY Zenon DEF DInv, DiscoveryTypeOK, SaveLastKnown, DelayEnds, NoSubnet, ExpandHosts, ProbeBatch, ScanDone,
         EndCancelled, threads
<1>4. DiscoveryTypeOK'
  BY <1>1, <1>2, Zenon DEF DInv, DiscoveryTypeOK
<1>5. OneActiveJob' /\ StopHasNoJob' /\ Launched'
  BY <1>1, <1>3, ZenonT(30) DEF DInv, OneActiveJob, Active, StopHasNoJob, Launched
<1>6. CleanSoFar'
  <2>1. \A k \in Job : Quiet(k) => Quiet(k)'
    BY <1>1, <1>3, Zenon DEF Quiet
  <2>2. job # 0 => job \in Job
    BY DiscoveryAssumption DEF DInv, DiscoveryTypeOK, Job
  <2>3. QED
    BY <1>1, <1>3, <2>1, <2>2, Zenon DEF DInv, CleanSoFar
<1>7. QED
  BY <1>4, <1>5, <1>6, Zenon DEF DInv

\* A thread reads the list and makes a new one.
LEMMA MergeSteps ==
  ASSUME DInv, NEW j \in Job,
         \/ MergeLast(j)
         \/ \E s \in Server : MergeScanned(j, s) \/ ServiceResolved(j, s) \/ ServiceRemoved(j, s)
  PROVE  DInv'
<1>1. /\ UNCHANGED <<main, again, job, jobs, cancelledJobs, clean, jobpc, servers, known>>
      /\ UNCHANGED <<lock, held, jmdns, live>>
  BY Zenon DEF MergeLast, MergeScanned, ServiceResolved, ServiceRemoved, control, threads, field
<1>2. found' \in [Job -> SUBSET Server] /\ last' \in [Job -> {"none", "load", "merge", "done"}]
  BY SMTT(30) DEF DInv, DiscoveryTypeOK, MergeLast, MergeScanned, ServiceResolved, ServiceRemoved, threads
<1>3. \/ UNCHANGED write
      \/ \E k \in {"scan", "last", "mdns"}, list \in SUBSET Server :
           /\ write' = [write EXCEPT ![<<j, k>>] = list]
           /\ k = "scan" => jobpc[j] = "merge"
           /\ k = "last" => j \notin cancelledJobs /\ jobpc[j] # "none" /\ last'[j] = "merge"
           /\ k = "mdns" => j \in live
  <2>1. CASE MergeLast(j)
    <3>1. jobpc[j] # "none"
      BY <2>1, Zenon DEF MergeLast, DInv, Launched
    <3>2. QED
      BY <2>1, <3>1, SMTT(30) DEF MergeLast, DInv, DiscoveryTypeOK
  <2>2. ASSUME NEW s \in Server, MergeScanned(j, s)
        PROVE  /\ write' = [write EXCEPT ![<<j, "scan">>] = servers \cup {s}]
               /\ jobpc[j] = "merge" /\ servers \cup {s} \in SUBSET Server
    BY <2>2, Zenon DEF MergeScanned, DInv, DiscoveryTypeOK
  <2>3. ASSUME NEW s \in Server, ServiceResolved(j, s) \/ ServiceRemoved(j, s)
        PROVE  /\ j \in live
               /\ \E list \in SUBSET Server : write' = [write EXCEPT ![<<j, "mdns">>] = list]
    BY <2>3, Zenon DEF ServiceResolved, ServiceRemoved, DInv, DiscoveryTypeOK
  <2>4. QED
    BY <2>1, <2>2, <2>3, Zenon
<1>4. write' \in [Writer -> {NoServer} \cup SUBSET Server]
  BY <1>3, Zenon DEF DInv, DiscoveryTypeOK
<1>5. \A k \in Job : last'[k] = last[k] \/ (last[k] = "load" /\ last'[k] \in {"merge", "done"})
  BY SMTT(30) DEF DInv, DiscoveryTypeOK, MergeLast, MergeScanned, ServiceResolved, ServiceRemoved, threads
<1>6. DiscoveryTypeOK'
  BY <1>1, <1>2, <1>4, Zenon DEF DInv, DiscoveryTypeOK
<1>7. OneActiveJob' /\ StopHasNoJob'
  BY <1>1, <1>5 DEF DInv, OneActiveJob, Active, StopHasNoJob
<1>8. Launched'
  <2> SUFFICES ASSUME NEW i \in Job
               PROVE  /\ i > jobs' => jobpc'[i] = "none"
                      /\ jobpc'[i] = "none" => last'[i] = "none"
                      /\ write'[<<i, "scan">>] # NoServer => jobpc'[i] = "merge"
                      /\ write'[<<i, "last">>] # NoServer => last'[i] = "merge"
    BY ZenonT(30) DEF Launched
  <2>1. /\ i > jobs => jobpc[i] = "none"
        /\ jobpc[i] = "none" => last[i] = "none"
        /\ write[<<i, "scan">>] # NoServer => jobpc[i] = "merge"
        /\ write[<<i, "last">>] # NoServer => last[i] = "merge"
    BY SMTT(30) DEF DInv, Launched
  <2>2. CASE UNCHANGED write
    BY <1>1, <1>5, <2>1, <2>2, Zenon
  <2>3. ASSUME NEW k \in {"scan", "last", "mdns"}, NEW list \in SUBSET Server,
               write' = [write EXCEPT ![<<j, k>>] = list],
               k = "scan" => jobpc[j] = "merge", k = "last" => last'[j] = "merge"
        PROVE  /\ write'[<<i, "scan">>] # NoServer => jobpc[i] = "merge"
               /\ write'[<<i, "last">>] # NoServer => last'[i] = "merge"
    <3>1. write \in [Writer -> {NoServer} \cup SUBSET Server]
      BY Zenon DEF DInv, DiscoveryTypeOK
    <3>2. \A n \in {"scan", "last", "mdns"} :
            \/ i = j /\ n = k
            \/ write'[<<i, n>>] = write[<<i, n>>]
      BY <2>3, <3>1, Writers, Zenon
    <3>3. QED
      BY <1>5, <2>1, <2>3, <3>2, Zenon
  <2>4. QED
    BY <1>1, <1>3, <1>5, <2>1, <2>2, <2>3, ZenonT(30)
<1>9. CleanSoFar'
  <2>1. \A k \in Job : Quiet(k) => Quiet(k)'
    BY <1>1, Zenon DEF Quiet
  <2>2. clean /\ main = "idle" /\ job = 0 => UNCHANGED write
    <3> SUFFICES ASSUME clean, main = "idle", job = 0 PROVE UNCHANGED write
      BY Zenon
    <3>1. Quiet(j) /\ live = {}
      BY DiscoveryAssumption DEF DInv, CleanSoFar, Job
    <3>2. QED
      BY <1>3, <3>1 DEF Quiet
  <2>3. QED
    BY <1>1, <2>1, <2>2, Zenon DEF DInv, CleanSoFar
<1>10. QED
  BY <1>6, <1>7, <1>8, <1>9, Zenon DEF DInv

\* A thread stores the list it made.
LEMMA StoreStep == ASSUME DInv, NEW w \in Writer, StoreServers(w) PROVE DInv'
<1>1. /\ UNCHANGED <<main, again, job, jobs, cancelledJobs, clean, found, known>>
      /\ UNCHANGED <<lock, held, jmdns, live>>
      /\ write[w] # NoServer /\ servers' = write[w] /\ write' = [write EXCEPT ![w] = NoServer]
  BY Zenon DEF StoreServers, control, field
<1>2. /\ jobpc' = [j \in Job |-> IF w = <<j, "scan">> /\ found[j] = {} THEN "done" ELSE jobpc[j]]
      /\ last' = [j \in Job |-> IF w = <<j, "last">> THEN "done" ELSE last[j]]
  BY Zenon DEF StoreServers
<1>3. \A j \in Job : /\ jobpc'[j] = jobpc[j] \/ (jobpc[j] = "merge" /\ jobpc'[j] = "done"
                                                  /\ w = <<j, "scan">>)
                     /\ last'[j] = last[j] \/ (last[j] = "merge" /\ last'[j] = "done"
                                                 /\ w = <<j, "last">>)
  <2> SUFFICES ASSUME NEW j \in Job
               PROVE  /\ jobpc'[j] = jobpc[j] \/ (jobpc[j] = "merge" /\ jobpc'[j] = "done"
                                                    /\ w = <<j, "scan">>)
                      /\ last'[j] = last[j] \/ (last[j] = "merge" /\ last'[j] = "done"
                                                  /\ w = <<j, "last">>)
    OBVIOUS
  <2>1. w = <<j, "scan">> => jobpc[j] = "merge"
    BY <1>1, Zenon DEF DInv, Launched
  <2>2. w = <<j, "last">> => last[j] = "merge"
    BY <1>1, ZenonT(30) DEF DInv, Launched
  <2>3. QED
    BY <1>2, <2>1, <2>2, Zenon
<1>4. DiscoveryTypeOK'
  BY <1>1, <1>2, Zenon DEF DInv, DiscoveryTypeOK
<1>5. OneActiveJob' /\ StopHasNoJob'
  BY <1>1, <1>3 DEF DInv, OneActiveJob, Active, StopHasNoJob
<1>6. Launched'
  BY <1>1, <1>3, Writers, ZenonT(30) DEF DInv, DiscoveryTypeOK, Launched
<1>7. CleanSoFar'
  <2>1. \A k \in Job : Quiet(k) => Quiet(k)'
    BY <1>1, <1>3, Zenon DEF Quiet
  <2>2. ~(clean /\ main = "idle" /\ job = 0)
    BY <1>1, Zenon DEF DInv, CleanSoFar
  <2>3. job # 0 => job \in Job
    BY DiscoveryAssumption DEF DInv, DiscoveryTypeOK, Job
  <2>4. QED
    BY <1>1, <1>3, <2>1, <2>2, <2>3, Zenon DEF DInv, CleanSoFar
<1>8. QED
  BY <1>4, <1>5, <1>6, <1>7, Zenon DEF DInv

\* The invariant of a discovery holds of every state.
THEOREM DiscoveryInvariance == DiscoverySpec => []DInv
<1>1. DInv /\ UNCHANGED discoveryVars => DInv'
  BY DEF discoveryVars, DInv, DiscoveryTypeOK, OneActiveJob, Active, StopHasNoJob, Launched,
         CleanSoFar, Quiet
<1>2. DInv /\ [DiscoveryNext]_discoveryVars => DInv'
  BY <1>1, StartStepD, StopStepD, CloseStepD, ClearStepD, OpenSteps, ScanSteps, MergeSteps,
     StoreStep, Zenon DEF DiscoveryNext
<1>3. QED
  BY <1>2, InitDInv, PTL DEF DiscoverySpec

\* With a clean history a stop leaves nothing behind.
LEMMA CleanFollows == DInv => StopIsClean
  BY DEF DInv, CleanSoFar, StopIsClean

-----------------------------------------------------------------------------
(***************************************************************************)
(* ShareResources                                                          *)
(***************************************************************************)
\* The count of the transfers' lock is at most the URBs under way (stop releases it
\* once more than it was acquired).
HoldsAreUrbs == holds <= Cardinality(urb)

\* What is being started has its number, and no coroutine yet.
StartHasNumber ==
    /\ \A c \in Session : c > started => kpc[c] = "none"
    /\ starting # "no" => started \in Session /\ kpc[started] = "none"

\* The inductive invariant.
ShInv == /\ ShareTypeOK /\ HoldsAreUrbs /\ IdleMaySleep /\ NothingStaysAdvertised
         /\ StartHasNumber

\* A set of sessions is finite and has at most MaxSessions elements.
LEMMA SessionSets ==
  ASSUME NEW S \in SUBSET Session
  PROVE  IsFiniteSet(S) /\ Cardinality(S) \in 0..MaxSessions
<1>1. IsFiniteSet(Session) /\ Cardinality(Session) = MaxSessions
  BY SessionsAssumption, FS_Interval DEF Session
<1>2. IsFiniteSet(S) /\ Cardinality(S) <= Cardinality(Session)
  BY <1>1, FS_Subset
<1>3. QED
  BY <1>1, <1>2, FS_CardinalityType, SessionsAssumption

\* The lock is held only while a URB is under way.
LEMMA BriefFollows == ShInv => TransferLockIsBrief
<1> SUFFICES ASSUME ShInv, holds > 0, urb = {} PROVE FALSE
  BY DEF TransferLockIsBrief
<1>1. Cardinality({}) = 0
  BY FS_EmptySet
<1>2. QED
  BY <1>1, SessionsAssumption DEF ShInv, HoldsAreUrbs, ShareTypeOK

\* Nothing is held at the start.
LEMMA InitShInv == ShareInit => ShInv
<1> SUFFICES ASSUME ShareInit PROVE ShInv
  OBVIOUS
<1>1. awake \in BOOLEAN /\ stray \in BOOLEAN /\ isRegistered \in BOOLEAN
  BY Zenon DEF ShareInit
<1>2. ShareTypeOK
  BY <1>1, SessionsAssumption DEF ShareInit, ShareTypeOK
<1>3. Cardinality({}) = 0
  BY FS_EmptySet, Zenon
<1>4. QED
  BY <1>2, <1>3 DEF ShareInit, ShInv, HoldsAreUrbs, IdleMaySleep, NothingStaysAdvertised,
         StartHasNumber

\* A URB begins or ends.
LEMMA UrbSteps == ASSUME ShInv, NEW c \in Session, UrbBegins(c) \/ UrbEnds(c) PROVE ShInv'
<1>1. urb \in SUBSET Session /\ urb' \in SUBSET Session /\ urb' \subseteq sharing
  BY Zenon DEF ShInv, ShareTypeOK, UrbBegins, UrbEnds
<1>2. /\ IsFiniteSet(urb) /\ Cardinality(urb) \in 0..MaxSessions
      /\ Cardinality(urb') \in 0..MaxSessions
  BY <1>1, SessionSets, Zenon
<1>3. holds \in Nat /\ holds <= Cardinality(urb)
  BY SessionsAssumption DEF ShInv, ShareTypeOK, HoldsAreUrbs
<1>4. holds' \in Nat /\ holds' <= Cardinality(urb')
  <2>1. CASE UrbBegins(c)
    <3>1. Cardinality(urb \cup {c}) = Cardinality(urb) + 1
      BY <1>2, <2>1, FS_AddElement, ZenonT(30) DEF UrbBegins
    <3>2. QED
      BY <1>2, <1>3, <2>1, <3>1, SessionsAssumption DEF UrbBegins
  <2>2. CASE UrbEnds(c)
    <3>1. Cardinality(urb \ {c}) = Cardinality(urb) - 1
      BY <1>2, <2>2, FS_RemoveElement, ZenonT(30) DEF UrbEnds
    <3>2. Cardinality(urb \ {c}) \in Nat
      BY <1>2, <2>2, SessionsAssumption DEF UrbEnds
    <3>3. QED
      BY <1>2, <1>3, <2>2, <3>1, <3>2, SessionsAssumption DEF UrbEnds, ReleaseCounted
  <2>3. QED
    BY <2>1, <2>2, Zenon
<1>5. UNCHANGED <<serviceMode, started, starting, sharing, kpc, awake, stray, registration>>
  BY DEF UrbBegins, UrbEnds, launch, wakeLock
<1>6. holds' \in 0..MaxSessions
  BY <1>2, <1>4, SessionsAssumption
<1>7. ShareTypeOK'
  BY <1>1, <1>5, <1>6, ZenonT(30) DEF ShInv, ShareTypeOK, registration
<1>8. HoldsAreUrbs' /\ IdleMaySleep' /\ NothingStaysAdvertised' /\ StartHasNumber'
  BY <1>4, <1>5, ZenonT(30) DEF ShInv, HoldsAreUrbs, IdleMaySleep, NothingStaysAdvertised,
                                StartHasNumber, registration
<1>9. QED
  BY <1>7, <1>8, Zenon DEF ShInv

\* A session is started: the mode and the lock.
LEMMA ShareStartSteps == ASSUME ShInv, ServerMode \/ ClientMode \/ TakeWakeLock PROVE ShInv'
<1>1. /\ UNCHANGED <<kpc, urb, holds>>
      /\ UNCHANGED <<listener, isRegistered, nsd, withdrawn, dropped>>
  BY Zenon DEF ServerMode, ClientMode, TakeWakeLock, power, registration
<1>2. /\ started' \in 0..MaxSessions /\ started' \in Session
      /\ sharing \subseteq sharing' /\ sharing' \subseteq Session
      /\ kpc[started'] = "none" /\ \A c \in Session : c > started' => kpc[c] = "none"
  <2>1. CASE ServerMode \/ ClientMode
    <3>1. /\ started' = started + 1 /\ started \in 0..MaxSessions /\ started < MaxSessions
          /\ sharing' \in {sharing, sharing \cup {started + 1}} /\ sharing \subseteq Session
      BY <2>1, Zenon DEF ServerMode, ClientMode, ShInv, ShareTypeOK
    <3>2. \A c \in Session : c > started => kpc[c] = "none"
      BY Zenon DEF ShInv, StartHasNumber
    <3>3. QED
      BY <3>1, <3>2, SessionsAssumption DEF Session
  <2>2. CASE TakeWakeLock
    BY <2>2, SMTT(30) DEF TakeWakeLock, ShInv, ShareTypeOK, StartHasNumber
  <2>3. QED
    BY <2>1, <2>2, Zenon
<1>3. starting' \in {"wake", "launch"}
  BY DEF ServerMode, ClientMode, TakeWakeLock
<1>4. \/ UNCHANGED <<awake, stray>> /\ serviceMode' \in {"SERVER", "CLIENT"}
      \/ /\ UNCHANGED serviceMode /\ awake' = TRUE
         /\ stray' = (serviceMode \notin {"SERVER", "CLIENT"})
  BY Zenon DEF ServerMode, ClientMode, TakeWakeLock, power, wakeLock
<1>5. awake' \in BOOLEAN /\ stray' \in BOOLEAN
  BY <1>4, Zenon DEF ShInv, ShareTypeOK
<1>6. ShareTypeOK'
  <2>1. serviceMode' \in {"IDLE", "SERVER", "CLIENT", "AWAITING_DEVICE"}
    BY <1>4, Zenon DEF ShInv, ShareTypeOK
  <2>2. QED
    BY <1>1, <1>2, <1>3, <1>5, <2>1, Zenon DEF ShInv, ShareTypeOK
<1>7. IdleMaySleep'
  BY <1>1, <1>4, Zenon DEF ShInv, IdleMaySleep
<1>8. HoldsAreUrbs' /\ NothingStaysAdvertised' /\ StartHasNumber'
  BY <1>1, <1>2, Zenon DEF ShInv, HoldsAreUrbs, NothingStaysAdvertised, StartHasNumber
<1>9. QED
  BY <1>6, <1>7, <1>8, Zenon DEF ShInv

\* Its coroutine is launched, and a server is registered.
LEMMA ShareLaunchStep == ASSUME ShInv, LaunchSession PROVE ShInv'
<1>1. started \in Session /\ started # 0 /\ kpc[started] = "none"
  BY SessionsAssumption DEF LaunchSession, ShInv, StartHasNumber, Session
<1>2. /\ UNCHANGED <<serviceMode, started, sharing, awake, stray, urb, holds>>
      /\ starting' = "no"
  BY Zenon DEF LaunchSession, power, wakeLock
<1>3. \E label \in {"server", "client"} : kpc' = [kpc EXCEPT ![started] = label]
  BY Zenon DEF LaunchSession, KGoto
<1>4. \/ UNCHANGED <<listener, isRegistered, nsd, withdrawn, dropped>>
      \/ /\ listener' = started /\ dropped' = dropped \cup ({listener} \ {0})
         /\ nsd' = [nsd EXCEPT ![started] = "asked"] /\ UNCHANGED <<isRegistered, withdrawn>>
  BY ZenonT(30) DEF LaunchSession, Register, registration
<1>5. isRegistered' \in BOOLEAN /\ awake' \in BOOLEAN /\ stray' \in BOOLEAN
  BY <1>2, <1>4, Zenon DEF ShInv, ShareTypeOK
<1>6. ShareTypeOK'
  <2>1. kpc' \in [Session -> {"none", "server", "client", "withdraw", "clear", "idle",
                              "release", "done"}]
    BY <1>3, Zenon DEF ShInv, ShareTypeOK
  <2>2. /\ listener' \in {0} \cup Session /\ withdrawn' \subseteq Session
        /\ dropped' \subseteq Session /\ nsd' \in [Session -> {"none", "asked", "up", "gone"}]
    BY <1>1, <1>4, ZenonT(30) DEF ShInv, ShareTypeOK
  <2>3. QED
    BY <1>2, <1>5, <2>1, <2>2, Zenon DEF ShInv, ShareTypeOK
<1>7. HoldsAreUrbs' /\ StartHasNumber'
  <2>1. \A c \in Session : c > started => kpc'[c] = kpc[c]
    BY <1>1, <1>3, SessionsAssumption DEF ShInv, ShareTypeOK, Session
  <2>2. QED
    BY <1>2, <2>1, Zenon DEF ShInv, HoldsAreUrbs, StartHasNumber
<1>8. IdleMaySleep'
  <2>1. \A c \in Session : kpc[c] = "release" => kpc'[c] = "release"
    BY <1>1, <1>3 DEF ShInv, ShareTypeOK
  <2>2. QED
    BY <1>2, <2>1, Zenon DEF ShInv, IdleMaySleep
<1>9. NothingStaysAdvertised'
  <2> SUFFICES ASSUME NEW k \in Session, nsd'[k] \in {"asked", "up"}
               PROVE  k \in {listener'} \cup withdrawn' \cup dropped'
    BY Zenon DEF NothingStaysAdvertised
  <2>1. (k = started /\ listener' = started) \/ nsd'[k] = nsd[k]
    BY <1>4, Zenon DEF ShInv, ShareTypeOK
  <2>2. nsd'[k] = nsd[k] => k \in {listener} \cup withdrawn \cup dropped
    BY DEF ShInv, NothingStaysAdvertised
  <2>3. k # 0
    BY SessionsAssumption DEF Session
  <2>4. QED
    BY <1>4, <2>1, <2>2, <2>3, Zenon
<1>10. QED
  BY <1>6, <1>7, <1>8, <1>9, Zenon DEF ShInv

\* Another handler of the main thread, or the timeout.
LEMMA ShareMainSteps == ASSUME ShInv, DeviceGone \/ StopAll \/ WakeLockTimesOut PROVE ShInv'
<1>1. urb \subseteq sharing /\ Cardinality(urb) \in Nat /\ holds \in 0..MaxSessions
      /\ holds <= Cardinality(urb) /\ MaxSessions \in Nat
  BY SessionSets, SessionsAssumption DEF ShInv, ShareTypeOK, HoldsAreUrbs
<1>2. isRegistered \in BOOLEAN
  BY DEF ShInv, ShareTypeOK
<1>5. CASE DeviceGone \/ StopAll
  <2>1. /\ withdrawn' = withdrawn \cup ({listener} \ {0}) /\ listener' = 0
        /\ isRegistered' = IF listener = 0 THEN isRegistered ELSE FALSE
        /\ UNCHANGED <<nsd, dropped, started, starting, sharing, kpc, urb>>
        /\ awake' = FALSE /\ stray' = FALSE /\ serviceMode' \in {"IDLE", "AWAITING_DEVICE"}
    BY <1>5, Zenon DEF DeviceGone, StopAll, UnregisterService, ReleaseLockIfHeld, launch
  <2>2. holds' \in 0..MaxSessions /\ holds' <= holds
    BY <1>1, <1>5 DEF DeviceGone, StopAll, ReleaseCounted
  <2>3. awake' \in BOOLEAN /\ stray' \in BOOLEAN /\ isRegistered' \in BOOLEAN
    BY <1>2, <2>1, Zenon
  <2>4. ShareTypeOK'
    BY <2>1, <2>2, <2>3, Zenon DEF ShInv, ShareTypeOK
  <2>5. HoldsAreUrbs' /\ IdleMaySleep' /\ StartHasNumber'
    BY <1>1, <2>1, <2>2 DEF ShInv, HoldsAreUrbs, IdleMaySleep, StartHasNumber
  <2>6. NothingStaysAdvertised'
    BY <2>1, Zenon DEF ShInv, ShareTypeOK, NothingStaysAdvertised, Session
  <2>7. QED
    BY <2>4, <2>5, <2>6 DEF ShInv
<1>6. CASE WakeLockTimesOut
  <2>1. /\ UNCHANGED <<serviceMode, started, starting, sharing, kpc, urb, holds>>
        /\ UNCHANGED <<listener, isRegistered, nsd, withdrawn, dropped>>
        /\ awake' = FALSE /\ stray' = FALSE
    BY <1>6 DEF WakeLockTimesOut, ReleaseLockIfHeld, launch, registration
  <2>2. awake' \in BOOLEAN /\ stray' \in BOOLEAN
    BY <2>1, Zenon
  <2>3. ShareTypeOK'
    BY <2>1, <2>2 DEF ShInv, ShareTypeOK
  <2>4. QED
    BY <2>1, <2>3, Zenon DEF ShInv, HoldsAreUrbs, IdleMaySleep, NothingStaysAdvertised,
                            StartHasNumber
<1>7. QED
  BY <1>5, <1>6, Zenon

\* A callback of NsdManager, or a step of a coroutine and of its catch block.
LEMMA ShareOtherSteps ==
  ASSUME ShInv, NEW c \in Session,
         \/ OnServiceRegistered(c) \/ OnRegistrationFailed(c) \/ OnServiceUnregistered(c)
         \/ SessionEnds(c) \/ CatchUnregisters(c) \/ CatchClears(c) \/ CatchIdles(c)
         \/ CatchReleases(c)
  PROVE  ShInv'
<1> USE SessionsAssumption DEF OnServiceRegistered, OnRegistrationFailed, OnServiceUnregistered,
      SessionEnds, CatchUnregisters, CatchClears, CatchIdles, CatchReleases, KGoto,
      ReleaseLockIfHeld
<1>1. UNCHANGED <<urb, holds, started, starting, sharing>>
  BY ZenonT(30) DEF power, launch
<1>2. HoldsAreUrbs' /\ StartHasNumber'
  <2>1. HoldsAreUrbs'
    BY <1>1, Zenon DEF ShInv, HoldsAreUrbs
  <2>2. \A k \in Session : kpc[k] = "none" => kpc'[k] = "none"
    BY ZenonT(30) DEF ShInv, ShareTypeOK
  <2>3. QED
    BY <1>1, <2>1, <2>2, Zenon DEF ShInv, StartHasNumber
<1>3. awake' \in BOOLEAN /\ stray' \in BOOLEAN /\ isRegistered' \in BOOLEAN
  <2>1. awake \in BOOLEAN /\ stray \in BOOLEAN /\ isRegistered \in BOOLEAN
    BY ZenonT(30) DEF ShInv, ShareTypeOK
  <2>2. QED
    BY <2>1, Zenon DEF registration, power, wakeLock
<1>4. kpc' \in [Session -> {"none", "server", "client", "withdraw", "clear", "idle",
                             "release", "done"}]
  BY ZenonT(30) DEF ShInv, ShareTypeOK
<1>5. /\ listener' \in {0} \cup Session /\ withdrawn' \subseteq Session
      /\ dropped' \subseteq Session /\ nsd' \in [Session -> {"none", "asked", "up", "gone"}]
  BY ZenonT(30) DEF ShInv, ShareTypeOK, registration
<1>6. ShareTypeOK'
  BY <1>1, <1>3, <1>4, <1>5, ZenonT(30) DEF ShInv, ShareTypeOK
<1>7. IdleMaySleep'
  BY Zenon DEF ShInv, ShareTypeOK, IdleMaySleep, power, wakeLock
<1>8. NothingStaysAdvertised'
  BY Zenon DEF ShInv, ShareTypeOK, NothingStaysAdvertised, registration
<1>9. QED
  BY <1>2, <1>6, <1>7, <1>8, ZenonT(30) DEF ShInv

\* The invariant of a session's resources holds of every state.
THEOREM ShareInvariance == ShareSpec => []ShInv
<1>1. ShInv /\ UNCHANGED shareVars => ShInv'
  BY DEF shareVars, power, wakeLock, launch, registration, ShInv, ShareTypeOK, HoldsAreUrbs,
         IdleMaySleep, NothingStaysAdvertised, StartHasNumber
<1>2. ShInv /\ [ShareNext]_shareVars => ShInv'
  BY <1>1, UrbSteps, ShareStartSteps, ShareLaunchStep, ShareMainSteps, ShareOtherSteps, Zenon DEF ShareNext
<1>3. QED
  BY <1>2, InitShInv, PTL DEF ShareSpec

-----------------------------------------------------------------------------
(***************************************************************************)
(* Both                                                                    *)
(***************************************************************************)
\* For any number of jobs and servers: one job at most discovers, and a stop that met no
\* thread in openJmDns or merging leaves no lock, session or entry behind.
THEOREM DiscoveryIsGivenBack == DiscoverySpec => []DiscoveryGivesBack
<1>1. DInv => DiscoveryGivesBack
  BY CleanFollows DEF DInv, DiscoveryGivesBack
<1>2. QED
  BY <1>1, DiscoveryInvariance, PTL

\* For any number of sessions: outside a session no wake lock is held but one taken after a
\* catch block had set the mode, the transfers' lock is held during transfers only, and a
\* registration can be withdrawn unless an overlapping call has dropped its listener.
THEOREM SessionIsGivenBack == ShareSpec => []SessionGivesBack
<1>1. ShInv => SessionGivesBack
  BY BriefFollows DEF ShInv, SessionGivesBack
<1>2. QED
  BY <1>1, ShareInvariance, PTL

=============================================================================
