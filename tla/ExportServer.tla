---------------------------- MODULE ExportServer ----------------------------
(***************************************************************************)
(* The export life cycle of usbip-server: the accept loop, one task per    *)
(* TCP connection (handle_client, handle_import, handle_urb_loop in        *)
(* server.rs), the shared map of active exports, and the two maps of       *)
(* claimed devices (UsbDeviceManager in usb.rs and the backend in          *)
(* usb_backend.rs).                                                        *)
(*                                                                         *)
(* A task is cut where the code awaits, or where a call may fail and       *)
(* return early with `?`.  What the URB loop writes is the subject of      *)
(* UrbBatcher; here a batch write is a step that succeeds or fails.        *)
(***************************************************************************)
EXTENDS Naturals, FiniteSets

CONSTANTS Conn,     \* connection slots: a slot is reused after its task ends
          Busid,    \* bus ids of the devices that may be plugged in
          None,     \* no entry in exports, no holder of its lock, no busid read
          Gone      \* an address that names no task of this server any more

ASSUME ConstantsAssumption ==
    /\ None \notin Conn \cup Busid
    /\ Gone \notin Conn
    /\ None # Gone

VARIABLES
    pc,          \* where the task of each connection stands
    busid,       \* the busid its OP_REQ_IMPORT named, once it is read
    peer,        \* whether the remote end is still connected
    exports,     \* Server.exports: busid -> client address (None: no entry)
    lock,        \* holder of the exports mutex across an await
    managed,     \* keys of UsbDeviceManager.handles
    opened,      \* keys of the backend's handles (driver detached, claimed)
    present,     \* devices the backend enumerates
    encryption   \* ServerConfig.encryption_enabled, fixed at start-up

vars == <<pc, busid, peer, exports, lock, managed, opened, present, encryption>>
usbVars == <<managed, opened, present, encryption>>

\* Importing: between the insertion of the entry and the URB loop.
Importing == {"claim", "record", "tree", "reply", "keys"}
\* Looping: inside handle_urb_loop, its clean-up included.
Looping == {"urb", "write", "drain", "release"}
\* A session holds the entry it inserted; "remove" is its last step.
Session == Importing \cup Looping \cup {"remove"}
PC == Session \cup {"idle", "header", "lookup", "locking", "busy"}

TypeOK ==
    /\ pc \in [Conn -> PC]
    /\ busid \in [Conn -> Busid \cup {None}]
    /\ peer \in [Conn -> {"open", "closed"}]
    /\ exports \in [Busid -> Conn \cup {None, Gone}]
    /\ lock \in Conn \cup {None}
    /\ managed \subseteq Busid
    /\ opened \subseteq Busid
    /\ present \subseteq Busid
    /\ encryption \in BOOLEAN

Init ==
    /\ pc = [c \in Conn |-> "idle"]
    /\ busid = [c \in Conn |-> None]
    /\ peer = [c \in Conn |-> "closed"]
    /\ exports = [b \in Busid |-> None]
    /\ lock = None
    /\ managed = {}
    /\ opened = {}
    /\ present \in SUBSET Busid
    /\ encryption \in BOOLEAN

Goto(c, label) == pc' = [pc EXCEPT ![c] = label]

\* The task of c returns: its stream is dropped, its slot can be reused.
Return(c) ==
    /\ Goto(c, "idle")
    /\ busid' = [busid EXCEPT ![c] = None]
    /\ peer' = [peer EXCEPT ![c] = "closed"]

(***************************************************************************)
(* Environment: clients close connections, devices come and go.            *)
(***************************************************************************)
PeerCloses(c) ==
    /\ pc[c] # "idle"
    /\ peer[c] = "open"
    /\ peer' = [peer EXCEPT ![c] = "closed"]
    /\ UNCHANGED <<pc, busid, exports, lock, usbVars>>

Plug(b) ==
    /\ b \notin present
    /\ present' = present \cup {b}
    /\ UNCHANGED <<pc, busid, peer, exports, lock, managed, opened, encryption>>

Unplug(b) ==
    /\ b \in present
    /\ present' = present \ {b}
    /\ UNCHANGED <<pc, busid, peer, exports, lock, managed, opened, encryption>>

(***************************************************************************)
(* handle_client                                                           *)
(***************************************************************************)
\* listener.accept() and tokio::spawn of the connection's task.
Accept(c) ==
    /\ pc[c] = "idle"
    /\ Goto(c, "header")
    /\ peer' = [peer EXCEPT ![c] = "open"]
    /\ UNCHANGED <<busid, exports, lock, usbVars>>

\* The task of c returns without having inserted an entry.
EndTask(c) ==
    /\ Return(c)
    /\ UNCHANGED <<exports, lock, usbVars>>

\* OP_REQ_DEVLIST (one reply, then the task returns), an unknown command, or
\* a connection that fails before the request is complete.
HandleOther(c) ==
    /\ pc[c] = "header"
    /\ EndTask(c)

\* OP_REQ_IMPORT and its 32-byte busid have been read.
ReadImport(c, b) ==
    /\ pc[c] = "header"
    /\ Goto(c, "lookup")
    /\ busid' = [busid EXCEPT ![c] = b]
    /\ UNCHANGED <<peer, exports, lock, usbVars>>

(***************************************************************************)
(* handle_import                                                           *)
(***************************************************************************)
\* get_device_entry finds nothing: ST_NODEV, and the task returns.
ReplyNoDev(c) ==
    /\ pc[c] = "lookup"
    /\ busid[c] \notin present
    /\ EndTask(c)

FindDevice(c) ==
    /\ pc[c] = "lookup"
    /\ busid[c] \in present
    /\ Goto(c, "locking")
    /\ UNCHANGED <<busid, peer, exports, lock, usbVars>>

\* exports.lock().await, then contains_key: the busy reply is written while
\* the guard is still alive.
FoundBusy(c) ==
    /\ pc[c] = "locking"
    /\ lock = None
    /\ exports[busid[c]] # None
    /\ lock' = c
    /\ Goto(c, "busy")
    /\ UNCHANGED <<busid, peer, exports, usbVars>>

\* Mutant: every exit of the import removes the entry of its busid.
MutReplyBusy(c) ==
    /\ pc[c] = "busy"
    /\ lock' = None
    /\ exports' = [exports EXCEPT ![busid[c]] = None]
    /\ Return(c)
    /\ UNCHANGED usbVars

\* The busy reply is written, or writing it fails; the guard is dropped.
ReplyBusy(c) ==
    /\ pc[c] = "busy"
    /\ lock' = None
    /\ Return(c)
    /\ UNCHANGED <<exports, usbVars>>

\* Mutant: no contains_key before the insertion.
MutInsertUnchecked(c) ==
    /\ pc[c] = "locking"
    /\ lock = None
    /\ exports' = [exports EXCEPT ![busid[c]] = c]
    /\ Goto(c, "claim")
    /\ UNCHANGED <<busid, peer, lock, usbVars>>

InsertExport(c) ==
    /\ pc[c] = "locking"
    /\ lock = None
    /\ exports[busid[c]] = None
    /\ exports' = [exports EXCEPT ![busid[c]] = c]
    /\ Goto(c, "claim")
    /\ UNCHANGED <<busid, peer, lock, usbVars>>

\* An early return with `?` after the entry was inserted: neither the entry
\* nor a claim is undone.  The entry now names a connection that is gone.
Abandon(c) ==
    /\ Return(c)
    /\ exports' = [exports EXCEPT ![busid[c]] = Gone]
    /\ UNCHANGED <<lock, usbVars>>

\* backend.claim_device: needs the device, and may fail at any interface.
ClaimBackend(c) ==
    /\ pc[c] = "claim"
    /\ busid[c] \in present
    /\ opened' = opened \cup {busid[c]}
    /\ Goto(c, "record")
    /\ UNCHANGED <<busid, peer, exports, lock, managed, present, encryption>>

\* Mutant: the manager does not record the claim.
MutRecordClaim(c) ==
    /\ pc[c] = "record"
    /\ Goto(c, "tree")
    /\ UNCHANGED <<busid, peer, exports, lock, usbVars>>

\* UsbDeviceManager.claim_device records what the backend claimed.
RecordClaim(c) ==
    /\ pc[c] = "record"
    /\ managed' = managed \cup {busid[c]}
    /\ Goto(c, "tree")
    /\ UNCHANGED <<busid, peer, exports, lock, opened, present, encryption>>

GetDescriptorTree(c) ==
    /\ pc[c] = "tree"
    /\ busid[c] \in present
    /\ Goto(c, "reply")
    /\ UNCHANGED <<busid, peer, exports, lock, usbVars>>

\* OP_REP_IMPORT is written; Wire::plain needs no exchange.
ReplyImport(c) ==
    /\ pc[c] = "reply"
    /\ Goto(c, IF encryption THEN "keys" ELSE "urb")
    /\ UNCHANGED <<busid, peer, exports, lock, usbVars>>

\* Wire::encrypted: the peer's public key arrives.
ExchangeKeys(c) ==
    /\ pc[c] = "keys"
    /\ Goto(c, "urb")
    /\ UNCHANGED <<busid, peer, exports, lock, usbVars>>

\* claim_device, get_descriptor_tree, the reply's write or the key exchange
\* fails.  RecordClaim alone cannot fail.
FailImport(c) ==
    /\ pc[c] \in Importing \ {"record"}
    /\ Abandon(c)

(***************************************************************************)
(* handle_urb_loop                                                         *)
(***************************************************************************)
\* A message is read, maybe one the peer sent before it closed.  A CMD_SUBMIT
\* is executed and its reply pushed; the loop goes on to write when push asks
\* for a flush.
ServeMessage(c) ==
    /\ pc[c] = "urb"
    /\ \/ Goto(c, "urb")
       \/ Goto(c, "write")
    /\ UNCHANGED <<busid, peer, exports, lock, usbVars>>

WriteBatch(c) ==
    /\ pc[c] = "write"
    /\ Goto(c, "urb")
    /\ UNCHANGED <<busid, peer, exports, lock, usbVars>>

\* Mutant: the early return removes the entry but does not release the device.
MutFailWrite(c) ==
    /\ pc[c] = "write"
    /\ exports' = [exports EXCEPT ![busid[c]] = None]
    /\ Return(c)
    /\ UNCHANGED <<lock, usbVars>>

\* wire.write_message(&batch).await? returns from the task.
FailWrite(c) ==
    /\ pc[c] = "write"
    /\ Abandon(c)

\* Mutant: a failed read is skipped (continue instead of break).
MutLeaveLoop(c) ==
    /\ pc[c] = "urb"
    /\ UNCHANGED vars

\* read_message fails, or a message is too short: break.
LeaveLoop(c) ==
    /\ pc[c] = "urb"
    /\ Goto(c, "drain")
    /\ UNCHANGED <<busid, peer, exports, lock, usbVars>>

\* The remaining batch is written; a failure is ignored.
Drain(c) ==
    /\ pc[c] = "drain"
    /\ Goto(c, "release")
    /\ UNCHANGED <<busid, peer, exports, lock, usbVars>>

\* Mutant: release_device fails, and `?` returns before the entry is removed.
MutRelease(c) ==
    /\ pc[c] = "release"
    /\ Abandon(c)

\* UsbDeviceManager.release_device holds its lock over both removals.  The
\* backends' release_device return Ok.
Release(c) ==
    /\ pc[c] = "release"
    /\ managed' = managed \ {busid[c]}
    /\ opened' = opened \ {busid[c]}
    /\ Goto(c, "remove")
    /\ UNCHANGED <<busid, peer, exports, lock, present, encryption>>

\* exports.lock().await.remove(&busid): by key, whoever the entry names.
RemoveExport(c) ==
    /\ pc[c] = "remove"
    /\ lock = None
    /\ exports' = [exports EXCEPT ![busid[c]] = None]
    /\ Return(c)
    /\ UNCHANGED <<lock, usbVars>>

-----------------------------------------------------------------------------
Handshake(c) ==
    \/ Accept(c)
    \/ HandleOther(c)
    \/ \E b \in Busid : ReadImport(c, b)

Import(c) ==
    \/ ReplyNoDev(c) \/ FindDevice(c)
    \/ FoundBusy(c) \/ ReplyBusy(c) \/ InsertExport(c)
    \/ ClaimBackend(c) \/ RecordClaim(c) \/ GetDescriptorTree(c)
    \/ ReplyImport(c) \/ ExchangeKeys(c) \/ FailImport(c)

UrbLoop(c) ==
    \/ ServeMessage(c) \/ WriteBatch(c) \/ FailWrite(c)
    \/ LeaveLoop(c) \/ Drain(c) \/ Release(c) \/ RemoveExport(c)

Next ==
    \/ \E c \in Conn : PeerCloses(c) \/ Handshake(c) \/ Import(c) \/ UrbLoop(c)
    \/ \E b \in Busid : Plug(b) \/ Unplug(b)

Spec == Init /\ [][Next]_vars

\* Ready tasks are polled (weak fairness).  The exports mutex of tokio serves
\* its waiters in FIFO order, so a waiter is not overtaken for ever (strong
\* fairness).  A closed connection has finitely many messages left to read,
\* and then its read fails (strong fairness).  A write to it ends, one way or
\* the other; a write to an open peer that reads nothing may never end, except
\* for the eight bytes of a busy reply.
Fairness ==
    \A c \in Conn :
        /\ WF_vars(ReplyBusy(c))
        /\ SF_vars(LeaveLoop(c) /\ peer[c] = "closed")
        /\ WF_vars((WriteBatch(c) \/ FailWrite(c)) /\ peer[c] = "closed")
        /\ WF_vars(Drain(c) /\ peer[c] = "closed")
        /\ WF_vars(Release(c))
        /\ SF_vars(RemoveExport(c))

FairSpec == Spec /\ Fairness

-----------------------------------------------------------------------------
(***************************************************************************)
(* Properties                                                              *)
(***************************************************************************)
\* From the insertion of its entry to the end of its clean-up, a connection
\* task is the one its busid's entry in `exports` names: no other task
\* removes or replaces an entry that is in use.
SessionOwnsEntry ==
    \A c \in Conn : pc[c] \in Session => exports[busid[c]] = c

\* Two connections are never in a session on the same device: the check and
\* the insertion under one lock make handle_import exclusive.
ExclusiveSession ==
    \A c, d \in Conn :
        /\ pc[c] \in Session
        /\ pc[d] \in Session
        /\ busid[c] = busid[d]
        => c = d

\* While a task is in the URB loop its device is claimed in both maps, so
\* submit_urb never answers -ENODEV because of the server's own bookkeeping.
LoopHasClaim ==
    \A c \in Conn :
        pc[c] \in Looping => busid[c] \in managed /\ busid[c] \in opened

\* A device the backend still holds open has an entry in `exports`: what
\* GET /api/devices lists as "available" has been given back to the host.
AvailableIsReleased ==
    \A b \in Busid : exports[b] = None => b \notin opened /\ b \notin managed

\* The claims in the backend's maps agree with `exports`: a running loop has its
\* device in both, and a device that is listed as "available" is in neither.
ClaimsAgree == LoopHasClaim /\ AvailableIsReleased

\* An entry that names a connection changes only when the session of that
\* connection ends, and never passes straight to another connection.
EntryStep ==
    \A b \in Busid, c \in Conn :
        exports[b] = c /\ exports'[b] # c =>
            /\ busid[c] = b
            /\ pc[c] \in Session
            /\ pc'[c] = "idle"
            /\ exports'[b] \in {None, Gone}

\* No step changes an entry in any other way.
EntryChangesByOwner == [][EntryStep]_vars

\* The server implements the lease of DeviceLease, with the entries of `exports`
\* as leaseholders and the backend's handles as open devices.
Lease == INSTANCE DeviceLease WITH
             Client <- Conn, Device <- Busid, holder <- exports, open <- opened

\* Every step of a task is a step of the lease, or none.
ImplementsLease == Lease!Spec

\* When the peer of a URB loop has closed its connection the task ends, and its
\* entry is removed, or stays behind as Gone when a batch could not be written:
\* the `?` on that write leaves handle_urb_loop before its clean-up.
ClosedPeerEndsTask ==
    \A c \in Conn, b \in Busid :
        (pc[c] \in Looping /\ peer[c] = "closed" /\ busid[c] = b)
            ~> (pc[c] = "idle" /\ exports[b] \in {None, Gone})

\* A loop that is left because a read failed makes its device available to other
\* clients again, even while they keep taking the exports lock.
ReadErrorFreesDevice ==
    \A c \in Conn, b \in Busid :
        (pc[c] = "drain" /\ peer[c] = "closed" /\ busid[c] = b)
            ~> (exports[b] = None)

\* A session whose peer is gone ends, and its device is free again if a read was
\* what failed.  After a failed write of a batch it is not: that entry is Gone
\* for ever.
PeerGoneEndsSession == ClosedPeerEndsTask /\ ReadErrorFreesDevice

\* PROTOCOL.md: ST_DEV_BUSY means "device already exported to another client".
\* A busy answer is given only while another connection has a session on the
\* device.
BusyMeansExported ==
    \A c \in Conn :
        pc[c] = "busy" =>
            \E d \in Conn \ {c} : pc[d] \in Session /\ busid[d] = busid[c]

=============================================================================
