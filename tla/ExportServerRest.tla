-------------------------- MODULE ExportServerRest --------------------------
(***************************************************************************)
(* ExportServer together with the REST handler of api.rs that writes the   *)
(* same exports map, POST /api/disconnect; it does not await under the     *)
(* exports lock.  POST /api/connect would insert into the map too, but     *)
(* never gets there: RealImporter::import calls block_on on a thread of    *)
(* the runtime, which panics, and the other importer returns NotSupported. *)
(***************************************************************************)
EXTENDS ExportServer

\* post_disconnect, where a missing entry only changes the answer: abort finds
\* no recorded JoinHandle (record is never called), so removing the entry is its
\* whole effect.
PostDisconnect(b) ==
    /\ lock = None
    /\ exports' = [exports EXCEPT ![b] = None]
    /\ UNCHANGED <<pc, busid, peer, lock, usbVars>>

RestNext == Next \/ \E b \in Busid : PostDisconnect(b)

RestSpec == Init /\ [][RestNext]_vars /\ Fairness

-----------------------------------------------------------------------------
\* api.rs on post_disconnect: it "signals the RemoteImporter so the live TCP
\* stream / URB forwarding task gets aborted".  A URB loop whose entry was
\* removed ends.
DisconnectEndsLoop ==
    \A c \in Conn :
        (pc[c] \in Looping /\ exports[busid[c]] # c) ~> (pc[c] \notin Looping)

=============================================================================
