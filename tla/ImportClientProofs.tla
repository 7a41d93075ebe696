------------------------- MODULE ImportClientProofs -------------------------
(***************************************************************************)
(* Proofs about ExportServer, for any set of connections and of devices,   *)
(* and about ImportClient, for any numbers of clients and retries too.     *)
(***************************************************************************)
EXTENDS ImportClient, TLAPS

(***************************************************************************)
(* ExportServer                                                            *)
(***************************************************************************)
\* Where the backend's map and the manager's map hold the device of a task.
Holding == Looping \cup {"tree", "reply", "keys"}

\* The inductive invariant.  SessionOwnsEntry alone is not inductive over the
\* claim maps: another task could take or drop a device of a session.  It is
\* ownership that excludes this, so the facts about claims are carried along
\* with it, and a task about to remove its entry has released its device.
ClaimsFollowSession ==
    \A c \in Conn :
        /\ pc[c] \notin {"idle", "header"} => busid[c] \in Busid
        /\ pc[c] = "record" => busid[c] \in opened
        /\ pc[c] \in Holding => busid[c] \in managed /\ busid[c] \in opened
        /\ pc[c] = "remove" => busid[c] \notin managed /\ busid[c] \notin opened

IInv == TypeOK /\ ClaimsFollowSession /\ SessionOwnsEntry /\ AvailableIsReleased

USE DEF Session, Importing, Looping, Holding, PC

\* Nothing is exported or claimed at start-up.
LEMMA InitIInv == Init => IInv
  BY ConstantsAssumption DEF Init, IInv, TypeOK, ClaimsFollowSession,
     SessionOwnsEntry, AvailableIsReleased

\* A step of the environment does not touch the bookkeeping.
LEMMA EnvironmentStep ==
  ASSUME IInv, \/ \E c \in Conn : PeerCloses(c)
               \/ \E b \in Busid : Plug(b) \/ Unplug(b)
  PROVE  IInv'
  BY DEF IInv, TypeOK, ClaimsFollowSession, SessionOwnsEntry,
     AvailableIsReleased, PeerCloses, Plug, Unplug, usbVars

\* Accepting a connection and reading its request.
LEMMA HandshakeStep ==
  ASSUME IInv, NEW c \in Conn, Handshake(c)
  PROVE  IInv'
  <1>1. CASE Accept(c)
    BY <1>1 DEF Accept, Goto, IInv, TypeOK, ClaimsFollowSession,
       SessionOwnsEntry, AvailableIsReleased, usbVars
  <1>2. CASE HandleOther(c)
    BY <1>2 DEF HandleOther, EndTask, Return, Goto, IInv, TypeOK,
       ClaimsFollowSession, SessionOwnsEntry, AvailableIsReleased, usbVars
  <1>3. ASSUME NEW b \in Busid, ReadImport(c, b)
        PROVE  IInv'
    BY <1>3, SMTT(30) DEF ReadImport, Goto, IInv, TypeOK, ClaimsFollowSession,
       SessionOwnsEntry, AvailableIsReleased, usbVars
  <1>. QED  BY <1>1, <1>2, <1>3 DEF Handshake

\* The import: the entry is inserted only when there is none, and only the
\* session that inserted it claims the device.
LEMMA ImportStep ==
  ASSUME IInv, NEW c \in Conn, Import(c)
  PROVE  IInv'
  <1>. USE DEF Goto, IInv, TypeOK, ClaimsFollowSession, SessionOwnsEntry,
               AvailableIsReleased, usbVars
  <1>1. CASE ReplyNoDev(c)
    BY <1>1 DEF ReplyNoDev, EndTask, Return
  <1>2. CASE FindDevice(c)
    BY <1>2 DEF FindDevice
  <1>3. CASE FoundBusy(c)
    BY <1>3, Zenon DEF FoundBusy
  <1>4. CASE ReplyBusy(c)
    BY <1>4 DEF ReplyBusy, Return
  <1>5. CASE InsertExport(c)
    BY <1>5, ConstantsAssumption DEF InsertExport
  <1>6. CASE ClaimBackend(c)
    BY <1>6, ConstantsAssumption DEF ClaimBackend
  <1>7. CASE RecordClaim(c)
    BY <1>7, ConstantsAssumption DEF RecordClaim
  <1>8. CASE GetDescriptorTree(c)
    BY <1>8 DEF GetDescriptorTree
  <1>9. CASE ReplyImport(c)
    BY <1>9 DEF ReplyImport
  <1>10. CASE ExchangeKeys(c)
    BY <1>10 DEF ExchangeKeys
  <1>11. CASE FailImport(c)
    BY <1>11, ConstantsAssumption, SMTT(30) DEF FailImport, Abandon, Return
  <1>. QED  BY <1>1, <1>2, <1>3, <1>4, <1>5, <1>6, <1>7, <1>8, <1>9, <1>10,
               <1>11, Zenon DEF Import

\* The URB loop: the device is released before its entry is removed.
LEMMA UrbLoopStep ==
  ASSUME IInv, NEW c \in Conn, UrbLoop(c)
  PROVE  IInv'
  <1>. USE DEF Goto, IInv, TypeOK, ClaimsFollowSession, SessionOwnsEntry,
               AvailableIsReleased, usbVars
  <1>1. CASE ServeMessage(c)
    BY <1>1 DEF ServeMessage
  <1>2. CASE WriteBatch(c)
    BY <1>2 DEF WriteBatch
  <1>3. CASE FailWrite(c)
    BY <1>3, ConstantsAssumption DEF FailWrite, Abandon, Return
  <1>4. CASE LeaveLoop(c)
    BY <1>4 DEF LeaveLoop
  <1>5. CASE Drain(c)
    BY <1>5 DEF Drain
  <1>6. CASE Release(c)
    BY <1>6, ConstantsAssumption DEF Release
  <1>7. CASE RemoveExport(c)
    BY <1>7, ConstantsAssumption DEF RemoveExport, Return
  <1>. QED  BY <1>1, <1>2, <1>3, <1>4, <1>5, <1>6, <1>7, Zenon DEF UrbLoop

\* Every step keeps the inductive invariant.
LEMMA NextIInv == IInv /\ [Next]_vars => IInv'
  <1>. SUFFICES ASSUME IInv, [Next]_vars
                PROVE  IInv'
    OBVIOUS
  <1>1. CASE UNCHANGED vars
    BY <1>1 DEF vars, IInv, TypeOK, ClaimsFollowSession, SessionOwnsEntry,
       AvailableIsReleased
  <1>2. CASE Next
    BY <1>2, EnvironmentStep, HandshakeStep, ImportStep, UrbLoopStep DEF Next
  <1>. QED  BY <1>1, <1>2

\* The bookkeeping is consistent in every reachable state.
THEOREM Invariance == Spec => []IInv
  BY InitIInv, NextIInv, PTL DEF Spec

\* A task that answers "busy" holds the lock, so the entry it found is still
\* there; and an entry that names a connection names a session on that device.
EntryInUse ==
    /\ \A c \in Conn : pc[c] = "busy" => lock = c /\ exports[busid[c]] # None
    /\ \A b \in Busid :
          exports[b] \in Conn =>
              pc[exports[b]] \in Session /\ busid[exports[b]] = b

\* What the lock protects stays in use while a task answers.
LEMMA NextEntryInUse == IInv /\ EntryInUse /\ [Next]_vars => EntryInUse'
  <1>. SUFFICES ASSUME IInv, EntryInUse, [Next]_vars
                PROVE  EntryInUse'
    OBVIOUS
  <1>. USE ConstantsAssumption
       DEF IInv, TypeOK, ClaimsFollowSession, SessionOwnsEntry, EntryInUse, Goto,
           usbVars
  <1>1. CASE UNCHANGED vars
    BY <1>1 DEF vars
  <1>2. ASSUME NEW b \in Busid, Plug(b) \/ Unplug(b)
        PROVE  EntryInUse'
    BY <1>2, Zenon DEF Plug, Unplug
  <1>3. ASSUME NEW c \in Conn, PeerCloses(c) \/ Handshake(c)
        PROVE  EntryInUse'
    BY <1>3 DEF PeerCloses, Handshake, Accept, HandleOther, EndTask, Return, ReadImport
  <1>4. ASSUME NEW c \in Conn, FoundBusy(c) \/ ReplyBusy(c)
        PROVE  EntryInUse'
    BY <1>4 DEF FoundBusy, ReplyBusy, Return
  <1>5. ASSUME NEW c \in Conn, InsertExport(c)
        PROVE  EntryInUse'
    BY <1>5 DEF InsertExport
  <1>6. ASSUME NEW c \in Conn, FailImport(c) \/ FailWrite(c)
        PROVE  EntryInUse'
    BY <1>6 DEF FailImport, FailWrite, Abandon, Return
  <1>7. ASSUME NEW c \in Conn, RemoveExport(c)
        PROVE  EntryInUse'
    BY <1>7 DEF RemoveExport, Return
  <1>8. ASSUME NEW c \in Conn, \/ ReplyNoDev(c) \/ FindDevice(c)
                               \/ ClaimBackend(c) \/ RecordClaim(c)
                               \/ GetDescriptorTree(c) \/ ReplyImport(c)
                               \/ ExchangeKeys(c)
        PROVE  EntryInUse'
    BY <1>8 DEF ReplyNoDev, EndTask, Return, FindDevice, ClaimBackend, RecordClaim,
       GetDescriptorTree, ReplyImport, ExchangeKeys
  <1>9. ASSUME NEW c \in Conn, \/ ServeMessage(c) \/ WriteBatch(c) \/ LeaveLoop(c)
                               \/ Drain(c) \/ Release(c)
        PROVE  EntryInUse'
    BY <1>9 DEF ServeMessage, WriteBatch, LeaveLoop, Drain, Release
  <1>. QED  BY <1>1, <1>2, <1>3, <1>4, <1>5, <1>6, <1>7, <1>8, <1>9
               DEF Next, Import, UrbLoop

\* No task answers "busy", and no entry names a connection, at start-up.
LEMMA InitEntryInUse == Init => EntryInUse
  BY ConstantsAssumption DEF Init, EntryInUse

-----------------------------------------------------------------------------
\* The bookkeeping of the server implements the device lease: every step of a
\* connection task maps to a step of DeviceLease or leaves the lease alone.
THEOREM Refinement == Spec => ImplementsLease
  <1>1. Init => Lease!Init
    BY Zenon DEF Init, Lease!Init
  <1>2. IInv /\ [Next]_vars => [Lease!Next]_(Lease!lease)
    <2>. SUFFICES ASSUME IInv, [Next]_vars
                  PROVE  Lease!Next \/ UNCHANGED <<exports, opened>>
      BY DEF Lease!lease
    <2>. USE DEF IInv, TypeOK, ClaimsFollowSession, SessionOwnsEntry, usbVars
    <2>1. CASE UNCHANGED vars
      BY <2>1 DEF vars
    <2>2. ASSUME NEW b \in Busid, Plug(b) \/ Unplug(b)
          PROVE  UNCHANGED <<exports, opened>>
      BY <2>2 DEF Plug, Unplug
    <2>3. ASSUME NEW c \in Conn, PeerCloses(c) \/ Handshake(c)
          PROVE  UNCHANGED <<exports, opened>>
      BY <2>3 DEF PeerCloses, Handshake, Accept, HandleOther, EndTask, ReadImport
    <2>4. ASSUME NEW c \in Conn, InsertExport(c)
          PROVE  Lease!Grant(c, busid[c]) /\ busid[c] \in Busid
      BY <2>4 DEF InsertExport, Lease!Grant, AvailableIsReleased
    <2>5. ASSUME NEW c \in Conn, ClaimBackend(c)
          PROVE  Lease!Open(c, busid[c]) /\ busid[c] \in Busid
      BY <2>5 DEF ClaimBackend, Lease!Open
    <2>6. ASSUME NEW c \in Conn, FailImport(c) \/ FailWrite(c)
          PROVE  Lease!Lose(c, busid[c]) /\ busid[c] \in Busid
      BY <2>6 DEF FailImport, FailWrite, Abandon, Lease!Lose
    <2>7. ASSUME NEW c \in Conn, Release(c)
          PROVE  Lease!Close(c, busid[c]) /\ busid[c] \in Busid
      BY <2>7 DEF Release, Lease!Close
    <2>8. ASSUME NEW c \in Conn, RemoveExport(c)
          PROVE  Lease!End(c, busid[c]) /\ busid[c] \in Busid
      BY <2>8, Zenon DEF RemoveExport, Lease!End
    <2>9. ASSUME NEW c \in Conn, Import(c), ~InsertExport(c), ~ClaimBackend(c),
                 ~FailImport(c)
          PROVE  UNCHANGED <<exports, opened>>
      BY <2>9, Zenon DEF Import, ReplyNoDev, EndTask, FindDevice, FoundBusy, ReplyBusy,
         RecordClaim, GetDescriptorTree, ReplyImport, ExchangeKeys
    <2>10. ASSUME NEW c \in Conn, UrbLoop(c), ~FailWrite(c), ~Release(c),
                  ~RemoveExport(c)
           PROVE  UNCHANGED <<exports, opened>>
      BY <2>10 DEF UrbLoop, ServeMessage, WriteBatch, LeaveLoop, Drain
    <2>. QED  BY <2>1, <2>2, <2>3, <2>4, <2>5, <2>6, <2>7, <2>8, <2>9, <2>10
                 DEF Next, Lease!Next
  <1>. QED  BY <1>1, <1>2, Invariance, PTL DEF Spec, ImplementsLease, Lease!Spec

\* Every variable keeps its type.
THEOREM TypeCorrect == Spec => []TypeOK
  BY Invariance, PTL DEF IInv

\* A session's entry in `exports` names that session, from handle_import's
\* insertion to handle_urb_loop's removal.
THEOREM Ownership == Spec => []SessionOwnsEntry
  BY Invariance, PTL DEF IInv

\* handle_import never lets two connections into a session on one device.
THEOREM Exclusion == Spec => []ExclusiveSession
  <1>1. IInv => ExclusiveSession
    BY DEF IInv, SessionOwnsEntry, ExclusiveSession
  <1>. QED  BY <1>1, Invariance, PTL

\* The device of a running URB loop is claimed in both maps.
THEOREM ClaimedInLoop == Spec => []LoopHasClaim
  <1>1. IInv => LoopHasClaim
    BY DEF IInv, ClaimsFollowSession, LoopHasClaim
  <1>. QED  BY <1>1, Invariance, PTL

\* A device without an entry in `exports` is held open by nobody.
THEOREM ReleasedWhenAvailable == Spec => []AvailableIsReleased
  BY Invariance, PTL DEF IInv

\* The claims and `exports` agree, for a loop and for an available device.
THEOREM ClaimsAgreement == Spec => []ClaimsAgree
  BY ClaimedInLoop, ReleasedWhenAvailable, PTL DEF ClaimsAgree

\* Only the session an entry names ends that entry.
THEOREM EntryChanges == Spec => EntryChangesByOwner
  <1>1. IInv /\ [Next]_vars => [EntryStep]_vars
    <2>. SUFFICES ASSUME IInv, Next, NEW b \in Busid, NEW c \in Conn,
                         exports[b] = c, exports'[b] # c
                  PROVE  /\ busid[c] = b
                         /\ pc[c] \in Session
                         /\ pc'[c] = "idle"
                         /\ exports'[b] \in {None, Gone}
      BY Zenon DEF EntryStep
    <2>. USE DEF IInv, TypeOK, ClaimsFollowSession, SessionOwnsEntry, usbVars
    <2>1. ASSUME NEW d \in Conn, \/ PeerCloses(d) \/ Handshake(d)
          PROVE  FALSE
      BY <2>1, Zenon DEF PeerCloses, Handshake, Accept, HandleOther, EndTask, ReadImport
    <2>2. ASSUME NEW p \in Busid, Plug(p) \/ Unplug(p)
          PROVE  FALSE
      BY <2>2 DEF Plug, Unplug
    <2>3. ASSUME NEW d \in Conn, InsertExport(d)
          PROVE  FALSE
      BY <2>3, ConstantsAssumption, Zenon DEF InsertExport
    <2>4. ASSUME NEW d \in Conn, Import(d), ~FailImport(d), ~InsertExport(d)
          PROVE  FALSE
      BY <2>4 DEF Import, ReplyNoDev, EndTask, FindDevice, FoundBusy, ReplyBusy,
         ClaimBackend, RecordClaim, GetDescriptorTree, ReplyImport, ExchangeKeys
    <2>5. ASSUME NEW d \in Conn, Abandon(d), pc[d] \in Session
          PROVE  /\ busid[c] = b
                 /\ pc[c] \in Session
                 /\ pc'[c] = "idle"
                 /\ exports'[b] \in {None, Gone}
      BY <2>5, Zenon DEF Abandon, Return, Goto
    <2>6. ASSUME NEW d \in Conn, RemoveExport(d)
          PROVE  /\ busid[c] = b
                 /\ pc[c] \in Session
                 /\ pc'[c] = "idle"
                 /\ exports'[b] \in {None, Gone}
      BY <2>6, Zenon DEF RemoveExport, Return, Goto
    <2>7. ASSUME NEW d \in Conn, UrbLoop(d), ~FailWrite(d), ~RemoveExport(d)
          PROVE  FALSE
      BY <2>7, Zenon DEF UrbLoop, ServeMessage, WriteBatch, LeaveLoop, Drain, Release
    <2>8. ASSUME NEW d \in Conn, FailImport(d) \/ FailWrite(d)
          PROVE  Abandon(d) /\ pc[d] \in Session
      BY <2>8 DEF FailImport, FailWrite
    <2>. QED  BY <2>1, <2>2, <2>3, <2>4, <2>5, <2>6, <2>7, <2>8, Zenon DEF Next
  <1>. QED  BY <1>1, Invariance, PTL DEF Spec, EntryChangesByOwner

-----------------------------------------------------------------------------
(***************************************************************************)
(* ImportClient.  What clients do to the server are steps of ExportServer, *)
(* so its invariants hold under clients.  A client's own state is tied to  *)
(* the task at the other end of its stream (CInv), which turns the         *)
(* exclusive session of the server into one forwarding client a device.    *)
(***************************************************************************)
\* A task whose positive reply has been written: forwarding, or past it.
Served == Looping \cup {"remove", "idle"}

USE DEF Served, Session, Importing, Looping, PC

\* A connection nobody serves is closed.
IdleClosed == \A c \in Conn : pc[c] = "idle" => peer[c] = "closed"

\* The stream of a client is its own, leads to a task that serves its device,
\* and is there exactly while the client waits or forwards.
StreamInv ==
    /\ \A j, k \in Client : conn[j] = conn[k] /\ conn[j] # None => j = k
    /\ \A k \in Client :
          /\ conn[k] = None <=> cpc[k] \notin {"await", "reawait", "forward"}
          /\ reply[k] # "none" => conn[k] # None /\ cpc[k] # "forward"
          /\ conn[k] # None /\ pc[conn[k]] \notin {"idle", "header"}
                => busid[conn[k]] = Device[k]
          /\ cpc[k] = "forward" \/ reply[k] = "ok" => pc[conn[k]] \in Served

\* A task that is still at work has not stopped retrying, and each of its
\* retries is one attempt of its BackOff state.
ReconnectInv ==
    \A k \in Client :
        /\ retries[k] <= MaxRetries
        /\ rstate[k] = "Active" => retries[k] = 0
        /\ rstate[k] = "BackOff" => retries[k] = attempt[k] + 1
        /\ cpc[k] \in {"reimport", "reawait", "forward", "backoff"}
              => rstate[k] # "Stopped"

CInv ==
    /\ IInv /\ ClientTypeOK /\ encryption = FALSE
    /\ IdleClosed /\ StreamInv /\ ReconnectInv

-----------------------------------------------------------------------------
\* No client has done anything at start-up.
LEMMA ClientInitCInv == ClientInit => CInv
<1> SUFFICES ASSUME ClientInit PROVE CInv
  OBVIOUS
<1>1. IInv /\ TypeOK
  BY InitIInv, SMTT(30) DEF ClientInit, IInv
<1>2. QED
  BY <1>1, ConstantsAssumption, ClientAssumption
     DEF ClientInit, Init, CInv, ClientTypeOK, ClientPC, IdleClosed, StreamInv,
         ReconnectInv

\* A step of the task of c leaves the other tasks alone.
OthersKeep(c) ==
    \A d \in Conn \ {c} :
        pc'[d] = pc[d] /\ busid'[d] = busid[d] /\ peer'[d] = peer[d]

\* What a step of the task of c, after its request has been read, does to it.
Advances(c) ==
    /\ pc[c] \notin {"idle", "header"}
    /\ pc'[c] # "header"
    /\ pc'[c] # "idle" => busid'[c] = busid[c]
    /\ pc'[c] = "idle" => peer'[c] = "closed"
    /\ pc[c] \in Served => pc'[c] \in Served

\* The server's steps have this form.
LEMMA WorkAdvances ==
  ASSUME TypeOK, encryption = FALSE, NEW c \in Conn, Import(c) \/ UrbLoop(c)
  PROVE  OthersKeep(c) /\ Advances(c)
<1>. USE DEF TypeOK, OthersKeep, Advances, Goto, Return
<1>1. CASE ReplyNoDev(c)
  BY <1>1 DEF ReplyNoDev, EndTask
<1>2. CASE FindDevice(c)
  BY <1>2 DEF FindDevice
<1>3. CASE FoundBusy(c)
  BY <1>3 DEF FoundBusy
<1>4. CASE ReplyBusy(c)
  BY <1>4, Zenon DEF ReplyBusy
<1>5. CASE InsertExport(c)
  BY <1>5 DEF InsertExport
<1>6. CASE ClaimBackend(c)
  BY <1>6 DEF ClaimBackend
<1>7. CASE RecordClaim(c)
  BY <1>7 DEF RecordClaim
<1>8. CASE GetDescriptorTree(c)
  BY <1>8 DEF GetDescriptorTree
<1>9. CASE ReplyImport(c)
  BY <1>9, Zenon DEF ReplyImport
<1>10. CASE ExchangeKeys(c)
  BY <1>10 DEF ExchangeKeys
<1>11. CASE FailImport(c)
  BY <1>11 DEF FailImport, Abandon
<1>12. CASE ServeMessage(c)
  BY <1>12 DEF ServeMessage
<1>13. CASE WriteBatch(c)
  BY <1>13 DEF WriteBatch
<1>14. CASE FailWrite(c)
  BY <1>14 DEF FailWrite, Abandon
<1>15. CASE LeaveLoop(c)
  BY <1>15 DEF LeaveLoop
<1>16. CASE Drain(c)
  BY <1>16 DEF Drain
<1>17. CASE Release(c)
  BY <1>17 DEF Release
<1>18. CASE RemoveExport(c)
  BY <1>18, Zenon DEF RemoveExport
<1>. QED
  BY <1>1, <1>2, <1>3, <1>4, <1>5, <1>6, <1>7, <1>8, <1>9, <1>10, <1>11, <1>12,
     <1>13, <1>14, <1>15, <1>16, <1>17, <1>18, Zenon DEF Import, UrbLoop

\* Dropping a stream is the server's PeerCloses, or nothing to the server.
LEMMA DropStreamCloses ==
  ASSUME CInv, NEW k \in Client, DropStream(k)
  PROVE  \/ UNCHANGED vars
         \/ \E c \in Conn : PeerCloses(c)
<1>1. CASE conn[k] = None \/ peer[conn[k]] = "closed"
  <2>1. peer' = peer
    BY <1>1, ConstantsAssumption DEF DropStream, CInv, ClientTypeOK, TypeOK
  <2>2. QED
    BY <2>1 DEF DropStream, vars, usbVars
<1>2. CASE conn[k] \in Conn /\ peer[conn[k]] = "open"
  <2>1. pc[conn[k]] # "idle"
    BY <1>2 DEF CInv, IdleClosed
  <2>2. peer' = [peer EXCEPT ![conn[k]] = "closed"]
    BY <1>2, Zenon DEF DropStream, CInv, ClientTypeOK, TypeOK
  <2>3. PeerCloses(conn[k])
    BY <1>2, <2>1, <2>2, Zenon DEF DropStream, PeerCloses
  <2>4. QED
    BY <1>2, <2>3
<1>3. QED
  BY <1>1, <1>2 DEF CInv, ClientTypeOK, TypeOK

\* The actions of a client in which it drops its stream.
Drops(k) ==
    \/ Attach(k) \/ ImportFails(k) \/ ReconnectFails(k) \/ Rejected(k)
    \/ ForwardFails(k) \/ ServerDisconnected(k) \/ Interrupted(k)

\* Every step of the composition is a step of the server or none.
LEMMA ServerStep == CInv /\ [ClientNext]_allVars => [Next]_vars
<1> SUFFICES ASSUME CInv, [ClientNext]_allVars PROVE [Next]_vars
  OBVIOUS
<1>1. ASSUME NEW k \in Client, Importer(k) PROVE [Next]_vars
  <2>1. CASE \E c \in Conn : Connect(k, c)
    BY <2>1 DEF Connect, Next, Handshake
  <2>2. CASE Drops(k)
    <3>1. DropStream(k)
      BY <2>2 DEF Drops, Attach, ImportFails, ReconnectFails, Rejected,
         ForwardFails, ServerDisconnected, Interrupted
    <3>2. QED
      BY <3>1, DropStreamCloses, Zenon DEF Next
  <2>3. CASE StartForwarding(k) \/ BackOffOver(k) \/ ImportAgain(k)
    BY <2>3, Zenon DEF StartForwarding, BackOffOver, ImportAgain
  <2>4. QED
    BY <1>1, <2>1, <2>2, <2>3 DEF Importer, Drops
<1>2. ASSUME NEW k \in Client, ServerReads(k) PROVE [Next]_vars
  <2>1. Device[k] \in Busid
    BY ClientAssumption
  <2>2. Handshake(conn[k])
    BY <1>2, <2>1, Zenon DEF ServerReads, Handshake
  <2>3. QED
    BY <1>2, <2>2 DEF ServerReads, Next
<1>3. ASSUME NEW c \in Conn,
             ServerDiscards(c) \/ ServerReplies(c) \/ ServerWorks(c) \/ NetworkDrops(c)
      PROVE  [Next]_vars
  BY <1>3 DEF ServerDiscards, ServerReplies, ServerWorks, NetworkDrops, Next,
     Handshake, Import
<1>4. ASSUME NEW b \in Busid, Replug(b) PROVE [Next]_vars
  BY <1>4 DEF Replug, Next
<1>5. CASE UNCHANGED allVars
  BY <1>5 DEF allVars
<1>6. QED
  BY <1>1, <1>2, <1>3, <1>4, <1>5 DEF ClientNext

\* The server's invariant, and its plain transport, under clients.
LEMMA ServerInvariant == CInv /\ [ClientNext]_allVars => IInv' /\ TypeOK' /\ ~encryption'
<1> SUFFICES ASSUME CInv, [ClientNext]_allVars PROVE IInv' /\ TypeOK' /\ ~encryption'
  OBVIOUS
<1>1. [Next]_vars
  BY ServerStep
<1>2. IInv' /\ TypeOK'
  BY <1>1, NextIInv, SMTT(30) DEF CInv, IInv
<1>3. encryption' = encryption
  <2>1. ASSUME NEW c \in Conn, PeerCloses(c) \/ Handshake(c) PROVE encryption' = encryption
    BY <2>1, Zenon DEF usbVars, PeerCloses, Handshake, Accept, HandleOther, ReadImport, EndTask
  <2>2. ASSUME NEW c \in Conn, ReplyNoDev(c) \/ FindDevice(c) \/ FoundBusy(c) \/ ReplyBusy(c)
                                \/ InsertExport(c)
        PROVE  encryption' = encryption
    BY <2>2, Zenon DEF usbVars, ReplyNoDev, FindDevice, FoundBusy, ReplyBusy, InsertExport, EndTask
  <2>3. ASSUME NEW c \in Conn, ClaimBackend(c) \/ RecordClaim(c) \/ GetDescriptorTree(c)
                                \/ ReplyImport(c) \/ ExchangeKeys(c) \/ FailImport(c)
        PROVE  encryption' = encryption
    BY <2>3, Zenon DEF usbVars, ClaimBackend, RecordClaim, GetDescriptorTree, ReplyImport,
       ExchangeKeys, FailImport, Abandon
  <2>4. ASSUME NEW c \in Conn, ServeMessage(c) \/ WriteBatch(c) \/ FailWrite(c) \/ LeaveLoop(c)
                                \/ Drain(c) \/ Release(c) \/ RemoveExport(c)
        PROVE  encryption' = encryption
    BY <2>4, SMT DEF usbVars, ServeMessage, WriteBatch, FailWrite, LeaveLoop, Drain, Release,
       RemoveExport, Abandon
  <2>5. ASSUME NEW b \in Busid, Plug(b) \/ Unplug(b) PROVE encryption' = encryption
    BY <2>5, SMT DEF Plug, Unplug
  <2>6. CASE UNCHANGED vars
    BY <2>6, Zenon DEF vars
  <2>7. QED
    BY <1>1, <2>1, <2>2, <2>3, <2>4, <2>5, <2>6, ZenonT(30) DEF Next, Import, UrbLoop
<1>4. QED
  BY <1>2, <1>3 DEF CInv

\* A step of a task whose request has been read, with the reply it may write.
LEMMA WorkKeepsStreams ==
  ASSUME CInv, NEW c \in Conn, OthersKeep(c), Advances(c),
         UNCHANGED <<cpc, conn>>,
         NEW status \in {"ok", "busy", "nodev"},
         \/ UNCHANGED reply
         \/ /\ reply' = [k \in Client |-> IF conn[k] = c THEN status ELSE reply[k]]
            /\ pc[c] \notin Served
            /\ status = "ok" => pc'[c] \in Served
  PROVE  IdleClosed' /\ StreamInv'
<1>1. IdleClosed'
  BY Zenon DEF CInv, IdleClosed, OthersKeep, Advances
<1>2. \A k \in Client : conn[k] # None => conn[k] \in Conn
  BY Zenon DEF CInv, ClientTypeOK
<1>3. ASSUME NEW k \in Client
      PROVE  /\ conn[k] # None /\ pc'[conn[k]] \notin {"idle", "header"}
                   => busid'[conn[k]] = Device[k]
             /\ cpc[k] = "forward" \/ reply'[k] = "ok" => pc'[conn[k]] \in Served
             /\ reply'[k] # "none" => conn[k] # None /\ cpc[k] # "forward"
  <2>1. CASE conn[k] = c
    BY <2>1, ConstantsAssumption, SMTT(30) DEF CInv, StreamInv, Advances
  <2>2. CASE conn[k] # c
    <3>1. reply'[k] = reply[k]
      BY <2>2, SMTT(30) DEF CInv, ClientTypeOK
    <3>2. conn[k] # None => pc'[conn[k]] = pc[conn[k]] /\ busid'[conn[k]] = busid[conn[k]]
      BY <1>2, <2>2, ZenonT(30) DEF OthersKeep
    <3>3. cpc[k] = "forward" \/ reply[k] = "ok" => conn[k] # None
      BY SMTT(30) DEF CInv, StreamInv
    <3>4. QED
      BY <3>1, <3>2, <3>3, ZenonT(30) DEF CInv, StreamInv
  <2>3. QED
    BY <2>1, <2>2, Zenon
<1>4. StreamInv'
  <2>1. conn' = conn /\ cpc' = cpc
    BY Zenon
  <2>2. /\ \A j, k \in Client : conn[j] = conn[k] /\ conn[j] # None => j = k
        /\ \A k \in Client : conn[k] = None <=> cpc[k] \notin {"await", "reawait", "forward"}
    BY DEF CInv, StreamInv
  <2>3. QED
    BY ONLY <1>3, <2>1, <2>2, ZenonT(30) DEF StreamInv
<1>5. QED
  BY <1>1, <1>4, Zenon

\* The server's steps keep the invariant.
LEMMA ServerKeepsCInv ==
  ASSUME CInv, ClientNext, NEW c \in Conn, ServerReplies(c) \/ ServerWorks(c)
  PROVE  CInv'
<1>1. IInv' /\ TypeOK' /\ encryption' = FALSE
  BY ServerInvariant DEF CInv, TypeOK
<1>2. OthersKeep(c) /\ Advances(c)
  BY WorkAdvances, ZenonT(30) DEF ServerReplies, ServerWorks, Import, CInv, IInv
<1>3. CASE ServerWorks(c)
  <2>1. IdleClosed' /\ StreamInv'
    BY <1>2, <1>3, WorkKeepsStreams, Zenon DEF ServerWorks, clientVars
  <2>2. QED
    BY <1>1, <1>3, <2>1 DEF ServerWorks, clientVars, CInv, ClientTypeOK, ReconnectInv
<1>4. CASE ServerReplies(c)
  <2>1. PICK status \in {"ok", "busy", "nodev"} :
           /\ Deliver(c, status)
           /\ pc[c] \notin Served
           /\ status = "ok" => pc'[c] \in Served
    BY <1>4, SMTT(30) DEF ServerReplies, ReplyImport, ReplyBusy, ReplyNoDev, Goto, CInv, IInv, TypeOK
  <2>2. IdleClosed' /\ StreamInv'
    BY <1>2, <2>1, WorkKeepsStreams, ZenonT(30) DEF Deliver
  <2>3. QED
    BY <1>1, <2>1, <2>2, ZenonT(30) DEF Deliver, recon, CInv, ClientTypeOK, ReconnectInv
<1>5. QED
  BY <1>3, <1>4, Zenon

\* The streams stay right when no client moves and, at the other end of a
\* stream, the task stays where it is or has not come to serve the device yet.
LEMMA QuietKeepsStreams ==
  ASSUME StreamInv, conn' = conn, cpc' = cpc, reply' = reply,
         \A k \in Client : conn[k] # None =>
            \/ pc'[conn[k]] = pc[conn[k]] /\ busid'[conn[k]] = busid[conn[k]]
            \/ /\ pc[conn[k]] \notin Served
               /\ pc'[conn[k]] = "idle" \/ busid'[conn[k]] = Device[k]
  PROVE  StreamInv'
<1>1. \A k \in Client : cpc[k] = "forward" \/ reply[k] = "ok" => conn[k] # None
  BY Zenon DEF StreamInv
<1>2. \A k \in Client :
         /\ conn[k] # None /\ pc'[conn[k]] \notin {"idle", "header"}
               => busid'[conn[k]] = Device[k]
         /\ cpc[k] = "forward" \/ reply[k] = "ok" => pc'[conn[k]] \in Served
  BY <1>1, ZenonT(30) DEF StreamInv
<1>3. QED
  BY <1>2, SMTT(30) DEF StreamInv

\* So do the beginning of a connection's task, and the environment.
LEMMA EnvironmentKeepsCInv ==
  ASSUME CInv, ClientNext,
         \/ \E k \in Client : ServerReads(k)
         \/ \E c \in Conn : ServerDiscards(c) \/ NetworkDrops(c)
         \/ \E b \in Busid : Replug(b)
  PROVE  CInv'
<1>1. IInv' /\ TypeOK' /\ encryption' = FALSE
  BY ServerInvariant, Zenon DEF CInv, TypeOK
<1>2. UNCHANGED clientVars
  BY DEF ServerReads, ServerDiscards, NetworkDrops, Replug
<1>3. IdleClosed' /\ StreamInv'
  <2>1. ASSUME NEW k \in Client, ServerReads(k) PROVE IdleClosed' /\ StreamInv'
    <3>1. cpc' = cpc /\ conn' = conn /\ reply' = reply /\ conn[k] \in Conn
      BY <1>2, <2>1, ZenonT(30) DEF ServerReads, clientVars
    <3>2. pc \in [Conn -> PC] /\ busid \in [Conn -> Busid \cup {None}]
      BY Zenon DEF CInv, IInv, TypeOK
    <3>3. \A j \in Client : conn[j] # None => conn[j] \in Conn
      BY SMTT(30) DEF CInv, ClientTypeOK
    <3>4. StreamInv /\ \A j \in Client : conn[j] = conn[k] => j = k
      BY <3>1, ConstantsAssumption, ZenonT(30) DEF CInv, StreamInv
    <3>5. CASE ReadImport(conn[k], Device[k])
      <4>1. IdleClosed'
        BY <3>1, <3>5, ZenonT(30) DEF ReadImport, Goto, CInv, IInv, TypeOK, IdleClosed
      <4>2. \A j \in Client : conn[j] # None =>
               \/ pc'[conn[j]] = pc[conn[j]] /\ busid'[conn[j]] = busid[conn[j]]
               \/ pc[conn[j]] \notin Served /\ busid'[conn[j]] = Device[j]
        BY <3>1, <3>2, <3>3, <3>4, <3>5, ZenonT(30) DEF ReadImport, Goto, Served
      <4>3. QED
        BY <3>1, <3>4, <4>1, <4>2, QuietKeepsStreams, ZenonT(30)
    <3>6. CASE HandleOther(conn[k])
      <4>1. IdleClosed'
        BY <3>1, <3>6, Zenon DEF HandleOther, EndTask, Return, Goto, CInv, IInv, TypeOK, IdleClosed
      <4>2. \A j \in Client : conn[j] # None =>
               \/ pc'[conn[j]] = pc[conn[j]] /\ busid'[conn[j]] = busid[conn[j]]
               \/ pc[conn[j]] \notin Served /\ pc'[conn[j]] = "idle"
        BY <3>1, <3>2, <3>3, <3>6, SMTT(30) DEF HandleOther, EndTask, Return, Goto, Served
      <4>3. QED
        BY <3>1, <3>4, <4>1, <4>2, QuietKeepsStreams, ZenonT(30)
    <3>7. QED
      BY <2>1, <3>5, <3>6, SMTT(30) DEF ServerReads
  <2>2. ASSUME NEW c \in Conn, ServerDiscards(c) PROVE IdleClosed' /\ StreamInv'
    <3>1. /\ pc' = [pc EXCEPT ![c] = "idle"] /\ busid' = [busid EXCEPT ![c] = None]
          /\ peer' = [peer EXCEPT ![c] = "closed"]
          /\ \A j \in Client : conn[j] # c
      BY <2>2, Zenon DEF ServerDiscards, HandleOther, EndTask, Return, Goto
    <3>2. IdleClosed'
      BY <3>1, Zenon DEF CInv, IInv, TypeOK, IdleClosed
    <3>3. \A j \in Client : conn[j] # None =>
             pc'[conn[j]] = pc[conn[j]] /\ busid'[conn[j]] = busid[conn[j]]
      BY <3>1, SMTT(30) DEF CInv, IInv, TypeOK, ClientTypeOK
    <3>4. QED
      BY <1>2, <3>2, <3>3, QuietKeepsStreams, ZenonT(30) DEF CInv, clientVars
  <2>3. ASSUME NEW c \in Conn, NetworkDrops(c) PROVE IdleClosed' /\ StreamInv'
    <3>1. pc' = pc /\ busid' = busid /\ peer' = [peer EXCEPT ![c] = "closed"]
      BY <2>3, Zenon DEF NetworkDrops, PeerCloses
    <3>2. IdleClosed'
      BY <3>1, Zenon DEF CInv, IInv, TypeOK, IdleClosed
    <3>3. QED
      BY <1>2, <3>1, <3>2, QuietKeepsStreams, ZenonT(30) DEF CInv, clientVars
  <2>4. ASSUME NEW b \in Busid, Replug(b) PROVE IdleClosed' /\ StreamInv'
    <3>1. pc' = pc /\ busid' = busid /\ peer' = peer
      BY <2>4, Zenon DEF Replug, Plug, Unplug
    <3>2. IdleClosed'
      BY <3>1, Zenon DEF CInv, IdleClosed
    <3>3. QED
      BY <1>2, <3>1, <3>2, QuietKeepsStreams, Zenon DEF CInv, clientVars
  <2>5. QED
    BY <2>1, <2>2, <2>3, <2>4, Zenon
<1>4. QED
  BY <1>1, <1>2, <1>3, Zenon DEF clientVars, CInv, ClientTypeOK, ReconnectInv

\* A client drops its stream: the task at the other end goes on.
LEMMA DropKeepsStreams ==
  ASSUME CInv, NEW k \in Client, DropStream(k),
         NEW label \in ClientPC \ {"await", "reawait", "forward"},
         cpc' = [cpc EXCEPT ![k] = label]
  PROVE  IdleClosed' /\ StreamInv'
  BY SMTT(30) DEF DropStream, CInv, ClientTypeOK, IdleClosed, StreamInv

\* A retry is counted in the state and in the budget.
LEMMA ErrorKeepsReconnect ==
  ASSUME CInv, NEW k \in Client, NEW category, HandleError(k, category),
         cpc[k] \in {"reimport", "reawait", "forward"}
  PROVE  /\ ReconnectInv'
         /\ rstate' \in [Client -> {"Active", "BackOff", "Stopped"}]
         /\ attempt' \in [Client -> Nat] /\ retries' \in [Client -> Nat]
         /\ \E label \in {"stopped", "backoff"} : cpc' = [cpc EXCEPT ![k] = label]
<1> USE ClientAssumption DEF ClientGoto, CInv, ClientTypeOK, ReconnectInv
<1>1. CASE ClientGoto(k, "stopped") /\ UNCHANGED recon
  BY <1>1, Zenon DEF recon
<1>2. CASE Retry(k)
  BY <1>2, SMTT(30) DEF Retry, ShouldRetry, NextAttempt
<1>3. CASE Stop(k)
  BY <1>3, ZenonT(30) DEF Stop
<1>4. QED
  BY <1>1, <1>2, <1>3, ZenonT(30) DEF HandleError

\* The client's own steps keep the invariant.
LEMMA ImporterKeepsCInv ==
  ASSUME CInv, ClientNext, NEW k \in Client, Importer(k)
  PROVE  CInv'
<1>1. IInv' /\ TypeOK' /\ encryption' = FALSE
  BY ServerInvariant, ZenonT(30) DEF CInv, TypeOK
<1>2. ASSUME NEW c \in Conn, Connect(k, c) PROVE CInv'
  <2>1. /\ pc' = [pc EXCEPT ![c] = "header"] /\ peer' = [peer EXCEPT ![c] = "open"]
        /\ busid' = busid /\ pc[c] = "idle"
        /\ conn' = [conn EXCEPT ![k] = c] /\ UNCHANGED <<reply, recon>>
        /\ \E label \in {"await", "reawait"} : cpc' = [cpc EXCEPT ![k] = label]
        /\ cpc[k] \in {"import", "reimport"}
        /\ cpc'[k] = "reawait" => cpc[k] = "reimport"
        /\ \A j \in Client : conn[j] # c
    BY <1>2, ZenonT(30) DEF Connect, Accept, Goto, ClientGoto, CInv, ClientTypeOK
  <2>2. ClientTypeOK'
    BY <1>1, <2>1, SMTT(30) DEF recon, CInv, ClientTypeOK, ClientPC
  <2>3. IdleClosed'
    BY <2>1, Zenon DEF CInv, IdleClosed, IInv, TypeOK
  <2>4. StreamInv'
    <3>1. conn[k] = None /\ reply[k] = "none"
      BY <2>1, ZenonT(30) DEF CInv, StreamInv
    <3>2. c # None
      BY ConstantsAssumption, SMTT(30)
    <3>3. \A j \in Client \ {k} :
             /\ conn'[j] = conn[j] /\ cpc'[j] = cpc[j]
             /\ conn[j] # None => /\ pc'[conn[j]] = pc[conn[j]]
                                  /\ busid'[conn[j]] = busid[conn[j]]
      BY <2>1, ZenonT(30) DEF CInv, ClientTypeOK, IInv, TypeOK
    <3>4. conn'[k] = c /\ cpc'[k] \in {"await", "reawait"} /\ pc'[c] = "header"
      BY <2>1, ZenonT(30) DEF CInv, ClientTypeOK, IInv, TypeOK
    <3>5. \A j \in Client : cpc[j] = "forward" \/ reply[j] = "ok" => conn[j] # None
      BY ZenonT(30) DEF CInv, StreamInv
    <3>6. QED
      BY <2>1, <3>1, <3>2, <3>3, <3>4, <3>5, SMTT(30) DEF CInv, StreamInv
  <2>5. ReconnectInv'
    BY <2>1, ZenonT(30) DEF recon, CInv, ClientTypeOK, ReconnectInv
  <2>6. QED
    BY <1>1, <2>2, <2>3, <2>4, <2>5, SMTT(30) DEF CInv
<1>3. CASE Attach(k)
  <2>1. DropStream(k) /\ cpc' = [cpc EXCEPT ![k] = "reimport"]
    BY <1>3, SMTT(30) DEF Attach, ClientGoto
  <2>2. IdleClosed' /\ StreamInv'
    BY <2>1, DropKeepsStreams, ZenonT(30) DEF ClientPC
  <2>3. /\ rstate' = [rstate EXCEPT ![k] = "Active"] /\ attempt' = [attempt EXCEPT ![k] = 0]
        /\ retries' = [retries EXCEPT ![k] = 0]
    BY <1>3 DEF Attach
  <2>4. ClientTypeOK'
    BY <1>1, <2>1, <2>3, Zenon DEF DropStream, CInv, ClientTypeOK, ClientPC
  <2>5. ReconnectInv'
    BY <2>1, <2>3, ClientAssumption, SMTT(30) DEF CInv, ClientTypeOK, ReconnectInv
  <2>6. QED
    BY <1>1, <2>2, <2>4, <2>5 DEF CInv
<1>4. CASE ImportFails(k) \/ ServerDisconnected(k) \/ Interrupted(k)
  <2>1. /\ DropStream(k) /\ UNCHANGED recon
        /\ \E label \in {"failed", "ended"} : cpc' = [cpc EXCEPT ![k] = label]
    BY <1>4 DEF ImportFails, ServerDisconnected, Interrupted, ClientGoto
  <2>2. IdleClosed' /\ StreamInv'
    BY <2>1, DropKeepsStreams, Zenon DEF ClientPC
  <2>3. ClientTypeOK'
    BY <1>1, <2>1, ZenonT(30) DEF DropStream, recon, CInv, ClientTypeOK, ClientPC
  <2>4. ReconnectInv'
    BY <2>1, Zenon DEF recon, CInv, ClientTypeOK, ReconnectInv
  <2>5. QED
    BY <1>1, <2>2, <2>3, <2>4 DEF CInv
<1>5. CASE ReconnectFails(k) \/ Rejected(k) \/ ForwardFails(k)
  <2>1. PICK category \in {"Transient", "Permanent"} :
           /\ DropStream(k) /\ HandleError(k, category)
           /\ cpc[k] \in {"reimport", "reawait", "forward"}
    BY <1>5, Zenon DEF ReconnectFails, Rejected, ForwardFails
  <2>2. /\ ReconnectInv'
        /\ rstate' \in [Client -> {"Active", "BackOff", "Stopped"}]
        /\ attempt' \in [Client -> Nat] /\ retries' \in [Client -> Nat]
        /\ \E label \in {"stopped", "backoff"} : cpc' = [cpc EXCEPT ![k] = label]
    BY <2>1, ErrorKeepsReconnect
  <2>3. IdleClosed' /\ StreamInv'
    BY <2>1, <2>2, DropKeepsStreams, Zenon DEF ClientPC
  <2>4. ClientTypeOK'
    BY <1>1, <2>1, <2>2 DEF DropStream, CInv, ClientTypeOK, ClientPC
  <2>5. QED
    BY <1>1, <2>2, <2>3, <2>4, Zenon DEF CInv
<1>6. CASE StartForwarding(k)
  <2>1. /\ cpc[k] = "reawait" /\ reply[k] = "ok"
        /\ cpc' = [cpc EXCEPT ![k] = "forward"] /\ reply' = [reply EXCEPT ![k] = "none"]
        /\ conn' = conn /\ pc' = pc /\ busid' = busid /\ peer' = peer
        /\ rstate' = rstate /\ attempt' = attempt /\ retries' = retries
    BY <1>6, Zenon DEF StartForwarding, ClientGoto, vars, recon
  <2>2. IdleClosed'
    BY <2>1, Zenon DEF CInv, IdleClosed
  <2>3. StreamInv'
    <3>1. \A j \in Client : /\ cpc'[j] = IF j = k THEN "forward" ELSE cpc[j]
                            /\ reply'[j] = IF j = k THEN "none" ELSE reply[j]
      BY <2>1, Zenon DEF CInv, ClientTypeOK
    <3>2. StreamInv /\ conn[k] # None /\ pc[conn[k]] \in Served
      BY <2>1, Zenon DEF CInv, StreamInv
    <3>3. QED
      BY <2>1, <3>1, <3>2 DEF StreamInv
  <2>4. ReconnectInv'
    BY <2>1, Zenon DEF CInv, ClientTypeOK, ReconnectInv
  <2>5. ClientTypeOK'
    BY <1>1, <2>1 DEF CInv, ClientTypeOK, ClientPC
  <2>6. QED
    BY <1>1, <2>2, <2>3, <2>4, <2>5, Zenon DEF CInv
<1>7. CASE BackOffOver(k) \/ ImportAgain(k)
  <2>1. PICK label \in {"reimport", "import"} :
           /\ cpc[k] \in {"backoff", "failed", "ended", "stopped"}
           /\ label = "reimport" => cpc[k] = "backoff"
           /\ cpc' = [cpc EXCEPT ![k] = label]
    BY <1>7, Zenon DEF BackOffOver, ImportAgain, ClientGoto
  <2>2. /\ conn' = conn /\ reply' = reply /\ pc' = pc /\ busid' = busid /\ peer' = peer
        /\ rstate' = rstate /\ attempt' = attempt /\ retries' = retries
    BY <1>7, Zenon DEF BackOffOver, ImportAgain, vars, recon
  <2>3. IdleClosed'
    BY <2>2, Zenon DEF CInv, IdleClosed
  <2>4. StreamInv'
    <3>1. \A j \in Client : \/ cpc'[j] = cpc[j]
                           \/ /\ cpc[j] \notin {"await", "reawait", "forward"}
                              /\ cpc'[j] \notin {"await", "reawait", "forward"}
      BY <2>1, Zenon DEF CInv, ClientTypeOK
    <3>2. QED
      BY <2>2, <3>1, ZenonT(30) DEF CInv, StreamInv
  <2>5. ReconnectInv'
    BY <2>1, <2>2, Zenon DEF CInv, ClientTypeOK, ReconnectInv
  <2>6. ClientTypeOK'
    BY <1>1, <2>1, <2>2 DEF CInv, ClientTypeOK, ClientPC
  <2>7. QED
    BY <1>1, <2>3, <2>4, <2>5, <2>6, Zenon DEF CInv
<1>8. QED
  BY <1>2, <1>3, <1>4, <1>5, <1>6, <1>7, SMTT(30) DEF Importer

\* The invariant of the composition is inductive.
LEMMA ClientNextCInv == CInv /\ [ClientNext]_allVars => CInv'
<1> SUFFICES ASSUME CInv, [ClientNext]_allVars PROVE CInv'
  OBVIOUS
<1>1. CASE ClientNext
  BY <1>1, ImporterKeepsCInv, ServerKeepsCInv, EnvironmentKeepsCInv, Zenon DEF ClientNext
<1>2. CASE UNCHANGED allVars
  <2>1. IInv' /\ TypeOK' /\ encryption' = FALSE
    BY <1>2, ServerInvariant, Zenon DEF CInv, TypeOK
  <2>2. /\ pc' = pc /\ busid' = busid /\ peer' = peer /\ cpc' = cpc /\ conn' = conn
        /\ reply' = reply /\ rstate' = rstate /\ attempt' = attempt /\ retries' = retries
    BY <1>2, Zenon DEF allVars, vars, clientVars
  <2>3. IdleClosed' /\ StreamInv'
    BY <2>2, QuietKeepsStreams, Zenon DEF CInv, IdleClosed
  <2>4. ClientTypeOK' /\ ReconnectInv'
    BY <2>1, <2>2 DEF CInv, ClientTypeOK, ReconnectInv
  <2>5. QED
    BY <2>1, <2>3, <2>4, Zenon DEF CInv
<1>3. QED
  BY <1>1, <1>2, Zenon

\* Clients and server stay consistent in every reachable state.
THEOREM ClientInvariance == ClientSpec => []CInv
  BY ClientInitCInv, ClientNextCInv, PTL DEF ClientSpec

\* The variables of both sides have their types.
THEOREM ClientTypeCorrect == ClientSpec => []ClientTypeOK
<1>1. CInv => ClientTypeOK
  BY DEF CInv
<1>2. QED
  BY <1>1, ClientInvariance, PTL

\* The server under clients is the server of ExportServer: the composition adds
\* no step to it, so its invariants and its lease carry over.
THEOREM ClientsUseServer == ClientSpec => ServerUnderClients
<1>1. ClientInit => Init
  BY DEF ClientInit
<1>2. QED
  BY <1>1, ServerStep, ClientInvariance, PTL DEF ClientSpec, ServerUnderClients, Spec

\* So it leases devices, with clients that reconnect and connections that break:
\* the entries of `exports` change hands only through the end of a lease.
THEOREM LeaseUnderClients == ClientSpec => ImplementsLease
  BY ClientsUseServer, Refinement, PTL DEF ServerUnderClients

\* At most one client forwards the URBs of a device, for any number of clients
\* that connect, fail, retry and vanish in any order.
THEOREM SingleForwarder == ClientSpec => []OneForwarder
<1>1. CInv => OneForwarder
  <2> SUFFICES ASSUME CInv, NEW j \in Client, NEW k \in Client,
                      Live(j), Live(k), Device[j] = Device[k]
               PROVE  j = k
    BY Zenon DEF OneForwarder
  <2>1. /\ conn[j] \in Conn /\ conn[k] \in Conn
        /\ pc[conn[j]] \in Session /\ pc[conn[k]] \in Session
        /\ busid[conn[j]] = busid[conn[k]]
    BY DEF Live, CInv, ClientTypeOK, StreamInv
  <2>2. conn[j] = conn[k]
    BY <2>1, Zenon DEF CInv, IInv, SessionOwnsEntry
  <2>3. QED
    BY <2>1, <2>2, ConstantsAssumption, ZenonT(30) DEF CInv, StreamInv
<1>2. QED
  BY <1>1, ClientInvariance, PTL

\* No import task retries more often than max_retries allows.
THEOREM RetriesBounded == ClientSpec => []RetryBudget
<1>1. CInv => RetryBudget
  BY SMTT(30) DEF CInv, ReconnectInv, RetryBudget
<1>2. QED
  BY <1>1, ClientInvariance, PTL

-----------------------------------------------------------------------------
\* An open connection is the stream of some client.
OpenIsStream == \A c \in Conn : peer[c] = "open" => \E k \in Client : conn[k] = c

\* A client that opens or drops a stream, and a network that cuts one, keep it so.
LEMMA NextOpenIsStream ==
  CInv /\ OpenIsStream /\ [ClientNext]_allVars => OpenIsStream'
<1> SUFFICES ASSUME CInv, OpenIsStream, [ClientNext]_allVars PROVE OpenIsStream'
  OBVIOUS
<1> USE DEF CInv, ClientTypeOK, IInv, TypeOK, OpenIsStream
<1>1. ASSUME NEW k \in Client, NEW c \in Conn, Connect(k, c) PROVE OpenIsStream'
  <2>1. conn[k] = None
    BY <1>1, Zenon DEF Connect, StreamInv
  <2>2. QED
    BY <1>1, <2>1, ConstantsAssumption DEF Connect, Accept, Goto
<1>2. ASSUME NEW k \in Client, DropStream(k) PROVE OpenIsStream'
  BY <1>2, Zenon DEF DropStream
<1>3. ASSUME NEW k \in Client, StartForwarding(k) \/ BackOffOver(k) \/ ImportAgain(k)
      PROVE  OpenIsStream'
  BY <1>3, Zenon DEF StartForwarding, BackOffOver, ImportAgain, vars
<1>4. ASSUME UNCHANGED conn, \A c \in Conn : peer'[c] = "open" => peer[c] = "open"
      PROVE  OpenIsStream'
  BY <1>4, Zenon
<1>5. ASSUME NEW c \in Conn, ServerReplies(c) \/ ServerWorks(c) PROVE OpenIsStream'
  <2>1. UNCHANGED conn
    BY <1>5, Zenon DEF ServerReplies, ServerWorks, Deliver, clientVars
  <2>2. Import(c) \/ UrbLoop(c)
    BY <1>5, Zenon DEF ServerReplies, ServerWorks, Import
  <2>3. peer'[c] = "open" => peer[c] = "open"
    BY <2>2, ZenonT(30) DEF Import, ReplyNoDev, EndTask, FindDevice, FoundBusy, ReplyBusy, Return,
       InsertExport, ClaimBackend, RecordClaim, GetDescriptorTree, ReplyImport,
       ExchangeKeys, FailImport, Abandon, UrbLoop, ServeMessage, WriteBatch, FailWrite,
       LeaveLoop, Drain, Release, RemoveExport
  <2>4. OthersKeep(c)
    BY <2>2, WorkAdvances, ZenonT(30)
  <2>5. QED
    BY <2>1, <2>3, <2>4, <1>4, Zenon DEF OthersKeep
<1>6. ASSUME NEW k \in Client, ServerReads(k) PROVE OpenIsStream'
  <2>1. UNCHANGED conn /\ conn[k] \in Conn
    BY <1>6, Zenon DEF ServerReads, clientVars
  <2>2. \A c \in Conn : peer'[c] = "open" => peer[c] = "open"
    BY <1>6, <2>1, ZenonT(30) DEF ServerReads, ReadImport, HandleOther, EndTask, Return
  <2>3. QED
    BY <1>4, <2>1, <2>2, Zenon
<1>7. ASSUME NEW c \in Conn, ServerDiscards(c) \/ NetworkDrops(c) PROVE OpenIsStream'
  BY <1>4, <1>7 DEF ServerDiscards, HandleOther, EndTask, Return, NetworkDrops,
     PeerCloses, clientVars
<1>8. ASSUME NEW b \in Busid, Replug(b) PROVE OpenIsStream'
  BY <1>4, <1>8, Zenon DEF Replug, Plug, Unplug, clientVars
<1>9. CASE UNCHANGED allVars
  BY <1>4, <1>9 DEF allVars, vars, clientVars
<1>10. QED
  BY <1>1, <1>2, <1>3, <1>5, <1>6, <1>7, <1>8, <1>9, ZenonT(30)
     DEF ClientNext, Importer, Attach, ImportFails, ReconnectFails, Rejected,
         ForwardFails, ServerDisconnected, Interrupted

\* A client that is refused is refused because of somebody else, or of what a
\* connection that is over left behind.
THEOREM RefusedByOthers == ClientSpec => []RefusedByOther
<1>1. ClientInit => EntryInUse /\ OpenIsStream
  BY InitEntryInUse DEF ClientInit, Init, OpenIsStream
<1>2. CInv /\ EntryInUse /\ OpenIsStream /\ [ClientNext]_allVars
         => (EntryInUse /\ OpenIsStream)'
  BY ServerStep, NextEntryInUse, NextOpenIsStream, Zenon DEF CInv
<1>3. CInv /\ EntryInUse /\ OpenIsStream => RefusedByOther
  <2> SUFFICES ASSUME CInv, EntryInUse, OpenIsStream, NEW k \in Client,
                      conn[k] # None, pc[conn[k]] = "busy"
               PROVE  \/ exports[Device[k]] = Gone
                      \/ exports[Device[k]] \in Conn /\ peer[exports[Device[k]]] = "closed"
                      \/ \E j \in Client \ {k} : conn[j] = exports[Device[k]]
    BY Zenon DEF RefusedByOther
  <2>1. conn[k] \in Conn /\ busid[conn[k]] = Device[k] /\ Device[k] \in Busid
    BY ClientAssumption DEF CInv, ClientTypeOK, StreamInv
  <2>2. exports[Device[k]] \in Conn \cup {Gone}
    BY <2>1 DEF CInv, IInv, TypeOK, EntryInUse
  <2>3. CASE exports[Device[k]] \in Conn /\ peer[exports[Device[k]]] = "open"
    <3>1. exports[Device[k]] # conn[k]
      BY <2>1, <2>3 DEF EntryInUse
    <3>2. QED
      BY <2>3, <3>1, Zenon DEF OpenIsStream
  <2>4. QED
    BY <2>2, <2>3, Zenon DEF CInv, IInv, TypeOK
<1>4. QED
  BY <1>1, <1>2, <1>3, ClientInvariance, PTL DEF ClientSpec

=============================================================================
