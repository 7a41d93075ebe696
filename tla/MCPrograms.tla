----------------------------- MODULE MCPrograms -----------------------------
(***************************************************************************)
(* Programs around the server: the one for Windows, the event stream and   *)
(* the device list of the web console, scans, and the hot-plug monitor;    *)
(* and the codecs by which a server tells of its devices (TXT records and  *)
(* descriptor trees).                                                      *)
(* They share no state, so a behaviour moves one of them, chosen at the    *)
(* start.                                                                  *)
(***************************************************************************)
EXTENDS Programs, Codecs

VARIABLE part   \* the part that moves

Console == <<eventVars, pageVars>>
Monitors == <<scanVars, hotplugVars>>
programsVars == <<part, windowsVars, Console, Monitors, codecVars>>

ProgramsInit ==
    /\ part \in {"windows", "events", "devices", "scan", "hotplug", "txt", "tree"}
    /\ WindowsInit /\ EventInit /\ PageInit /\ ScanInit /\ HotplugInit /\ TxtInit /\ TreeInit
    \* What a part that does not move starts from is fixed.
    /\ part # "scan" => mdns

\* A step of a part that leaves the others alone.
Windows(A) == part = "windows" /\ A /\ UNCHANGED <<part, Console, Monitors, codecVars>>
Events(A) == part = "events" /\ A /\ UNCHANGED <<part, windowsVars, pageVars, Monitors, codecVars>>
Devices(A) ==
    part = "devices" /\ A /\ UNCHANGED <<part, windowsVars, eventVars, Monitors, codecVars>>
Browser(A) ==
    part = "scan" /\ A /\ UNCHANGED <<part, windowsVars, Console, hotplugVars, codecVars>>
Hotplug(A) ==
    part = "hotplug" /\ A /\ UNCHANGED <<part, windowsVars, Console, scanVars, codecVars>>
Txt(A) == part = "txt" /\ A /\ UNCHANGED <<part, windowsVars, Console, Monitors, treeVars>>
Tree(A) == part = "tree" /\ A /\ UNCHANGED <<part, windowsVars, Console, Monitors, txtVars>>

ProgramsNext ==
    \/ Windows(WindowsNext) \/ Events(EventNext) \/ Devices(PageNext)
    \/ Browser(ScanNext) \/ Hotplug(HotplugNext) \/ Txt(TxtNext) \/ Tree(TreeNext)

\* Threads are scheduled; one poll of server.run ends however many clients come
\* (the runtime's cooperative budget makes accept give way); timers fire; requests
\* are answered again and again even if some fail, and a socket is opened or found
\* closed; a scan has a deadline.
ProgramsSpec ==
    /\ ProgramsInit /\ [][ProgramsNext]_programsVars
    /\ WF_programsVars(Windows(ServiceRuns))
    /\ \A c \in Peer : WF_programsVars(Windows(ServiceAccepts(c)))
    /\ \A t \in Thread :
         /\ WF_programsVars(Windows(NewServer(t) \/ PollWait(t)))
         /\ WF_programsVars(Windows(RecvSignal(t)))
    /\ \A s \in Slot : WF_programsVars(Events(EventProgress(s)))
    /\ \A q \in Fetch :
         /\ WF_programsVars(Devices(Poll(q)))
         /\ SF_programsVars(Devices(GetDevices(q))) /\ SF_programsVars(Devices(SetDevices(q)))
    /\ \A r \in Request : WF_programsVars(Browser(ScanEnds(r)))

\* Where the console moves: a mounted page has a socket it takes for open again
\* whenever the server is there for long enough (EventStream), and its device list
\* ends up showing the server's state once that no longer changes (DevicePage).
ConsoleCatchesUp ==
    /\ part = "events" => EventsReconnect
    /\ part = "devices" => PageCatchesUp

\* Where they move, what is told to end ends: the thread of the Windows program
\* after stop, the server's task of an event stream that hears that its page is
\* gone, and a scan at its deadline.
EndingsEnd ==
    /\ part = "windows" => StopEndsThread
    /\ part = "events" => UnmountEndsTask
    /\ part = "scan" => ScansEnd

=============================================================================
