----------------------------- MODULE DevicePage -----------------------------
(***************************************************************************)
(* The polling pages of the web console (ConnectionManager.tsx,            *)
(* DeviceInventory.tsx, ServerHealth.tsx) on GET /api/devices.  Requests   *)
(* are not sequenced: answers may be taken and arrive in any order, and    *)
(* each replaces what is shown.  One device; shown and exported say        *)
(* whether it is exported.                                                 *)
(***************************************************************************)
EXTENDS Naturals

CONSTANTS Fetch,        \* requests for the device list that may be under way
          MaxChanges    \* bound on changes by others

ASSUME PageAssumption == MaxChanges \in Nat

VARIABLES
    exported,   \* exports.contains_key of the server
    changes,    \* changes by others
    fetch,      \* a request: none, asked, answered
    answer,     \* its answer
    shown,      \* devices of the page
    action,     \* handleConnect, handleDisconnect: none, connect or disconnect
                \* (asked), done (by the server), list (being fetched)
    follow      \* the list request that the action awaits

pageVars == <<exported, changes, fetch, answer, shown, action, follow>>

PageTypeOK ==
    /\ exported \in BOOLEAN /\ changes \in 0..MaxChanges
    /\ fetch \in [Fetch -> {"none", "asked", "answered"}]
    /\ answer \in [Fetch -> BOOLEAN]
    /\ shown \in BOOLEAN
    /\ action \in {"none", "connect", "disconnect", "done", "list"}
    /\ follow \subseteq Fetch

PageInit ==
    /\ exported = FALSE /\ changes = 0
    /\ fetch = [q \in Fetch |-> "none"] /\ answer = [q \in Fetch |-> FALSE]
    /\ shown = FALSE /\ action = "none" /\ follow = {}

\* Another client imports or releases the device.
OthersChange ==
    /\ changes < MaxChanges
    /\ changes' = changes + 1
    /\ exported' = ~exported
    /\ UNCHANGED <<fetch, answer, shown, action, follow>>

\* Mutant: the page asks once.
MutPoll(q) ==
    /\ fetch[q] = "none" /\ changes = 0
    /\ fetch' = [fetch EXCEPT ![q] = "asked"]
    /\ UNCHANGED <<exported, changes, answer, shown, action, follow>>

\* setInterval(fetchDevices, 5000), whether or not earlier requests are back.
Poll(q) ==
    /\ fetch[q] = "none"
    /\ fetch' = [fetch EXCEPT ![q] = "asked"]
    /\ UNCHANGED <<exported, changes, answer, shown, action, follow>>

\* get_devices, under the exports lock.
GetDevices(q) ==
    /\ fetch[q] = "asked"
    /\ fetch' = [fetch EXCEPT ![q] = "answered"]
    /\ answer' = [answer EXCEPT ![q] = exported]
    /\ UNCHANGED <<exported, changes, shown, action, follow>>

Settled(q) ==
    /\ fetch' = [fetch EXCEPT ![q] = "none"]
    /\ answer' = [answer EXCEPT ![q] = FALSE]
    /\ follow' = follow \ {q}
    /\ action' = IF q \in follow THEN "none" ELSE action

\* setDevices, and the action that awaited the list ends.
SetDevices(q) ==
    /\ fetch[q] = "answered"
    /\ shown' = answer[q]
    /\ Settled(q)
    /\ UNCHANGED <<exported, changes>>

\* fetchDevices catches the error of a lost request or answer itself.
FetchFails(q) ==
    /\ fetch[q] # "none"
    /\ Settled(q)
    /\ UNCHANGED <<exported, changes, shown>>

\* The button that is drawn for what is shown.
Click ==
    /\ action = "none"
    /\ action' = IF shown THEN "disconnect" ELSE "connect"
    /\ UNCHANGED <<exported, changes, fetch, answer, shown, follow>>

\* post_disconnect finds the entry.
PostDisconnect ==
    /\ action = "disconnect" /\ exported
    /\ exported' = FALSE
    /\ action' = "done"
    /\ UNCHANGED <<changes, fetch, answer, shown, follow>>

\* The action succeeded: fetchDevices, which it awaits.
FetchList(q) ==
    /\ action = "done"
    /\ fetch[q] = "none"
    /\ action' = "list"
    /\ fetch' = [fetch EXCEPT ![q] = "asked"]
    /\ follow' = {q}
    /\ UNCHANGED <<exported, changes, answer, shown>>

\* RealImporter::import calls block_on on a thread of the runtime, which panics;
\* the importer of other platforms and of hosts without VHCI is not supported.
RealImport == "panic"
UnsupportedImport == "not supported"

\* build_remote_importer chooses one of them.
ImportResults == {RealImport, UnsupportedImport}

\* post_connect makes an entry of a device that was imported; a panic and an error
\* alike are an error for the page.
PostConnect ==
    /\ action = "connect"
    /\ \E result \in ImportResults :
        IF result = "imported"
        THEN exported' = TRUE /\ action' = "done"
        ELSE action' = "none" /\ UNCHANGED exported
    /\ UNCHANGED <<changes, fetch, answer, shown, follow>>

\* Any other error: no entry (404), or a request or an answer lost.  The list is
\* not fetched.
ActFails ==
    /\ action \in {"connect", "disconnect", "done"}
    /\ action' = "none"
    /\ UNCHANGED <<exported, changes, fetch, answer, shown, follow>>

PageNext ==
    \/ OthersChange \/ Click \/ PostDisconnect \/ PostConnect \/ ActFails
    \/ \E q \in Fetch : \/ Poll(q) \/ GetDevices(q) \/ SetDevices(q)
                        \/ FetchFails(q) \/ FetchList(q)

PageSpec == PageInit /\ [][PageNext]_pageVars

-----------------------------------------------------------------------------
\* However answers overtake each other, the page ends up showing the server's
\* state once that no longer changes.
PageCatchesUp == <>[](shown = exported)

=============================================================================
