------------------------------ MODULE MdnsScan ------------------------------
(***************************************************************************)
(* Scans for servers with mdns_sd: POST /api/scan (api.rs), whose browser  *)
(* (MdnsBrowserImpl of the server's discovery.rs) is made once and shared  *)
(* by all requests, and which shuts the browser's daemon down when a scan  *)
(* is over.  The daemon is external: while it runs it reports resolved     *)
(* services to the browse call, which is disconnected when it stops.       *)
(***************************************************************************)
EXTENDS Naturals, Sequences

CONSTANTS Request,     \* requests
          ServiceName,     \* full names of services on the network
          Address,     \* hosts and ports they may answer with
          MaxReports   \* bound on the reports of one scan

VARIABLES
    mdns,       \* the shared daemon runs
    rpc,        \* a request: idle, browsing, done
    reports,    \* events in its receiver: <<service, address>>
    taken,      \* events it has taken (history)
    byName      \* what it has found: a function of names

scanVars == <<mdns, rpc, reports, taken, byName>>

Report == ServiceName \X Address
Found == UNION {[names -> Address] : names \in SUBSET ServiceName}

ScanTypeOK ==
    /\ mdns \in BOOLEAN
    /\ rpc \in [Request -> {"idle", "browsing", "done"}]
    /\ reports \in [Request -> Seq(Report)] /\ taken \in [Request -> Seq(Report)]
    /\ byName \in [Request -> Found]

ScanInit ==
    /\ mdns \in BOOLEAN   \* NoopBrowser when there is no daemon
    /\ rpc = [r \in Request |-> "idle"]
    /\ reports = [r \in Request |-> <<>>]
    /\ taken = [r \in Request |-> <<>>]
    /\ byName = [r \in Request |-> <<>>]

\* daemon.browse, an empty answer if it fails.
Browse(r) ==
    /\ rpc[r] = "idle"
    /\ rpc' = [rpc EXCEPT ![r] = IF mdns THEN "browsing" ELSE "done"]
    /\ UNCHANGED <<mdns, reports, taken, byName>>

\* A service has been resolved, perhaps again and at another address.
Resolved(r, e) ==
    /\ mdns /\ rpc[r] = "browsing"
    /\ Len(reports[r]) + Len(taken[r]) < MaxReports
    /\ reports' = [reports EXCEPT ![r] = Append(@, e)]
    /\ UNCHANGED <<mdns, rpc, taken, byName>>

\* Mutant: a report of one service replaces what was found before it.
MutInsert(found, s, a) == [x \in {s} |-> a]

\* by_name.entry(..).or_insert(..)
Insert(found, s, a) ==
    IF s \in DOMAIN found THEN found
    ELSE [x \in DOMAIN found \cup {s} |-> IF x = s THEN a ELSE found[x]]

TakeReport(r) ==
    /\ rpc[r] = "browsing" /\ reports[r] # <<>>
    /\ LET e == Head(reports[r]) IN
         /\ byName' = [byName EXCEPT ![r] = Insert(@, e[1], e[2])]
         /\ taken' = [taken EXCEPT ![r] = Append(@, e)]
    /\ reports' = [reports EXCEPT ![r] = Tail(@)]
    /\ UNCHANGED <<mdns, rpc>>

\* Mutant: the loop ends when it has nothing left to take.
MutScanEnds(r) ==
    /\ rpc[r] = "browsing" /\ taken[r] # <<>>
    /\ rpc' = [rpc EXCEPT ![r] = "done"]
    /\ mdns' = FALSE
    /\ UNCHANGED <<reports, taken, byName>>

\* The deadline, whatever has not been taken, or a disconnected receiver that is
\* empty; and the daemon is shut down.
ScanEnds(r) ==
    /\ rpc[r] = "browsing"
    /\ rpc' = [rpc EXCEPT ![r] = "done"]
    /\ mdns' = FALSE
    /\ UNCHANGED <<reports, taken, byName>>

ScanNext ==
    \/ \E r \in Request : Browse(r) \/ TakeReport(r) \/ ScanEnds(r)
    \/ \E r \in Request, e \in Report : Resolved(r, e)

ScanSpec == ScanInit /\ [][ScanNext]_scanVars

-----------------------------------------------------------------------------
\* An answer has each service that was reported to its own scan once, with the
\* address of the first report, whatever other scans have taken.
FirstReportWins ==
    \A r \in Request :
        /\ DOMAIN byName[r] = {taken[r][i][1] : i \in 1..Len(taken[r])}
        /\ \A i \in 1..Len(taken[r]) :
             (\A j \in 1..(i - 1) : taken[r][j][1] # taken[r][i][1])
                => byName[r][taken[r][i][1]] = taken[r][i][2]

\* A scan ends.
ScansEnd == \A r \in Request : rpc[r] = "browsing" ~> rpc[r] = "done"

\* `POST /api/scan`: "discover USB/IP servers on the LAN via mDNS", however often
\* it is called.
ScanBrowses == [][\A r \in Request : Browse(r) => mdns]_scanVars

=============================================================================
