------------------------------ MODULE Programs ------------------------------
(***************************************************************************)
(* Programs around the server, side by side: the one for Windows, the      *)
(* event stream and the device list of the web console, scans, and the     *)
(* hot-plug monitor.  They share no state.                                 *)
(***************************************************************************)
EXTENDS WindowsApp, EventStream, DevicePage, MdnsScan, HotplugMonitor

EachProgramSpec == WindowsSpec /\ EventSpec /\ PageSpec /\ ScanSpec /\ HotplugSpec

\* The variables of the programs keep their types.
ProgramsTypeOK ==
    WindowsTypeOK /\ EventTypeOK /\ PageTypeOK /\ ScanTypeOK /\ HotplugTypeOK

\* What is delivered is in order and not mixed up.  A dashboard shows samples in the
\* order of their measurement and none twice, while it misses those of a lag or of
\* a lost socket (EventStream).  A scan answers with the first of the reports of
\* each name that it took (MdnsScan).  Hot-plug events are neither lost, doubled
\* nor overtaken while there is a monitor (HotplugMonitor).
DeliveredIsTrue == SamplesInOrder /\ FirstReportWins /\ EventsInOrder

=============================================================================
