----------------------------- MODULE UsbBackend -----------------------------
(***************************************************************************)
(* UsbDeviceManager (usb.rs) over LibusbBackend (usb_backend.rs): claiming *)
(* a device interface by interface, transfers, and giving it back, with    *)
(* the mutexes of both and the kernel's drivers.                           *)
(*                                                                         *)
(* A busid stands for the connection task that holds its entry in the      *)
(* exports map, so each has one call at a time (ExportServer).  Several    *)
(* busids may be spellings of one device: parse_busid takes "1-4", "01-4"  *)
(* and "1-4-x" for the same.  Interfaces are taken in ascending order.     *)
(* A device that is plugged in again has another address, hence other      *)
(* busids, so a device that is gone does not come back.                    *)
(***************************************************************************)
EXTENDS Naturals

CONSTANTS Busid,      \* keys of both handles maps
          UsbDevice,  \* physical devices
          NumIfaces,  \* interfaces of config_descriptor(0)
          Free,       \* nobody holds the mutex
          Kernel,     \* an interface is bound to its kernel driver
          Unbound     \* or to nothing

ASSUME BackendAssumption ==
    /\ NumIfaces \in Nat \ {0}
    /\ Kernel # Unbound /\ {Free, Kernel, Unbound} \cap Busid = {}

Iface == 1..NumIfaces

VARIABLES
    deviceOf,  \* what parse_busid and find_device make of a busid
    present,   \* the device is plugged in
    active,    \* interfaces of the active configuration
    native,    \* interfaces for which the kernel has a driver
    bound,     \* what an interface is bound to: a busid is its handle
    upc, at,   \* the call a task is in, and the interface it is at
    handles,   \* LibusbBackend.handles
    claimed,   \* UsbDeviceManager.handles
    backend,   \* who holds the mutex of the former
    manager,   \* and of the latter
    stranded   \* devices of which a claim has failed (history)

usbVars == <<deviceOf, present, active, native, bound, upc, at, handles, claimed,
             backend, manager, stranded>>
fixed == <<deviceOf, active, native>>
maps == <<handles, claimed>>
locks == <<backend, manager>>

InClaim == {"detach", "take", "insert", "note"}
InExecute == {"lookup", "transfer"}
InRelease == {"remove", "release", "attach", "drop"}

\* The variables keep their types: among others no call ever looks at an interface
\* past the last one.
UsbTypeOK ==
    /\ deviceOf \in [Busid -> UsbDevice]
    /\ present \in [UsbDevice -> BOOLEAN]
    /\ active \in [UsbDevice -> SUBSET Iface]
    /\ native \in [UsbDevice -> SUBSET Iface]
    /\ bound \in [UsbDevice -> [Iface -> Busid \cup {Kernel, Unbound}]]
    /\ upc \in [Busid -> {"idle", "held"} \cup InClaim \cup InExecute \cup InRelease]
    /\ at \in [Busid -> Iface]
    /\ handles \subseteq Busid /\ claimed \subseteq Busid
    /\ backend \in Busid \cup {Free} /\ manager \in Busid \cup {Free}
    /\ stranded \subseteq UsbDevice

UsbInit ==
    /\ deviceOf \in [Busid -> UsbDevice]
    /\ present = [d \in UsbDevice |-> TRUE]
    /\ active \in [UsbDevice -> {Iface, Iface \ {NumIfaces}}]
    /\ native \in [UsbDevice -> {Iface, Iface \ {1}}]
    /\ bound = [d \in UsbDevice |->
                   [i \in Iface |-> IF i \in native[d] THEN Kernel ELSE Unbound]]
    /\ upc = [b \in Busid |-> "idle"] /\ at = [b \in Busid |-> 1]
    /\ handles = {} /\ claimed = {}
    /\ backend = Free /\ manager = Free
    /\ stranded = {}

On(b) == bound[deviceOf[b]][at[b]]
Bind(b, x) == bound' = [bound EXCEPT ![deviceOf[b]][at[b]] = x]
At(b, label) == upc' = [upc EXCEPT ![b] = label]

\* Mutant: the loop runs to num_interfaces, included.
MutAdvance(b, first, label) ==
    IF at[b] > NumIfaces
    THEN At(b, label) /\ at' = [at EXCEPT ![b] = 1]
    ELSE At(b, first) /\ at' = [at EXCEPT ![b] = @ + 1]

\* The next interface, or `label` after the last one.
Advance(b, first, label) ==
    IF at[b] = NumIfaces
    THEN At(b, label) /\ at' = [at EXCEPT ![b] = 1]
    ELSE At(b, first) /\ at' = [at EXCEPT ![b] = @ + 1]

\* A handle that is dropped: libusb releases what it has still claimed.
Unclaim(b) ==
    [bound EXCEPT ![deviceOf[b]] =
        [i \in Iface |-> IF @[i] = b THEN Unbound ELSE @[i]]]

(***************************************************************************)
(* claim_device                                                            *)
(***************************************************************************)
\* find_device and open.
ClaimOpens(b) ==
    /\ upc[b] = "idle"
    /\ present[deviceOf[b]]
    /\ At(b, "detach") /\ at' = [at EXCEPT ![b] = 1]
    /\ UNCHANGED <<fixed, present, bound, maps, locks, stranded>>

\* let _ = detach_kernel_driver: an error is ignored, and there is nothing to
\* detach where the driver is that of another handle.
DetachDriver(b) ==
    /\ upc[b] = "detach"
    /\ \/ On(b) = Kernel /\ Bind(b, Unbound)
       \/ UNCHANGED bound
    /\ At(b, "take")
    /\ UNCHANGED <<fixed, present, at, maps, locks, stranded>>

\* Mutant: an interface that cannot be claimed is skipped.
MutTakeInterface(b) ==
    /\ upc[b] = "take"
    /\ IF present[deviceOf[b]] /\ at[b] \in active[deviceOf[b]] /\ On(b) = Unbound
       THEN Bind(b, b) /\ Advance(b, "detach", "insert")
       ELSE Advance(b, "detach", "insert") /\ UNCHANGED bound
    /\ UNCHANGED <<fixed, present, maps, locks, stranded>>

\* Mutant: an interface is taken from the handle that has it.
MutTakeOver(b) ==
    /\ upc[b] = "take"
    /\ IF present[deviceOf[b]] /\ at[b] \in active[deviceOf[b]] /\ On(b) # Kernel
       THEN /\ Bind(b, b)
            /\ Advance(b, "detach", "insert")
            /\ UNCHANGED stranded
       ELSE /\ bound' = Unclaim(b)
            /\ At(b, "idle") /\ at' = [at EXCEPT ![b] = 1]
            /\ stranded' = stranded \cup {deviceOf[b]}
    /\ UNCHANGED <<fixed, present, maps, locks>>

\* claim_interface, or `?`: the handle is dropped, and the drivers detached so far
\* stay away.
TakeInterface(b) ==
    /\ upc[b] = "take"
    /\ IF present[deviceOf[b]] /\ at[b] \in active[deviceOf[b]] /\ On(b) = Unbound
       THEN /\ Bind(b, b)
            /\ Advance(b, "detach", "insert")
            /\ UNCHANGED stranded
       ELSE /\ bound' = Unclaim(b)
            /\ At(b, "idle") /\ at' = [at EXCEPT ![b] = 1]
            /\ stranded' = stranded \cup {deviceOf[b]}
    /\ UNCHANGED <<fixed, present, maps, locks>>

\* Mutant: the guard of the backend's mutex lives on while the manager's is
\* waited for.
MutInsertHandle(b) ==
    /\ upc[b] = "insert"
    /\ backend = Free
    /\ handles' = handles \cup {b}
    /\ backend' = b
    /\ At(b, "note")
    /\ UNCHANGED <<fixed, present, bound, at, claimed, manager, stranded>>

\* The backend's map, and then the manager's, each under its mutex.
InsertHandle(b) ==
    /\ upc[b] = "insert"
    /\ backend = Free
    /\ handles' = handles \cup {b}
    /\ At(b, "note")
    /\ UNCHANGED <<fixed, present, bound, at, claimed, locks, stranded>>

NoteClaim(b) ==
    /\ upc[b] = "note"
    /\ manager = Free
    /\ claimed' = claimed \cup {b}
    /\ At(b, "held")
    /\ UNCHANGED <<fixed, present, bound, at, handles, locks, stranded>>

(***************************************************************************)
(* execute_urb                                                             *)
(***************************************************************************)
\* The manager's mutex is held until the transfer is over.
ExecuteUrb(b) ==
    /\ upc[b] = "held"
    /\ manager = Free
    /\ b \in claimed
    /\ manager' = b
    /\ At(b, "lookup")
    /\ UNCHANGED <<fixed, present, bound, at, maps, backend, stranded>>

\* So is the backend's.
LookupHandle(b) ==
    /\ upc[b] = "lookup"
    /\ backend = Free
    /\ IF b \in handles
       THEN At(b, "transfer") /\ backend' = b /\ UNCHANGED manager
       ELSE At(b, "held") /\ manager' = Free /\ UNCHANGED backend
    /\ UNCHANGED <<fixed, present, bound, at, maps, stranded>>

\* Data, an error of the device, or the 5 s timeout.
TransferEnds(b) ==
    /\ upc[b] = "transfer"
    /\ At(b, "held")
    /\ backend' = Free /\ manager' = Free
    /\ UNCHANGED <<fixed, present, bound, at, maps, stranded>>

(***************************************************************************)
(* release_device                                                          *)
(***************************************************************************)
ReleaseDevice(b) ==
    /\ upc[b] = "held"
    /\ manager = Free
    /\ manager' = b
    /\ claimed' = claimed \ {b}
    /\ At(b, "remove")
    /\ UNCHANGED <<fixed, present, bound, at, handles, backend, stranded>>

\* The configuration of a device that is gone cannot be read, and nothing is
\* given back.
RemoveHandle(b) ==
    /\ upc[b] = "remove"
    /\ backend = Free
    /\ backend' = b
    /\ handles' = handles \ {b}
    /\ At(b, IF present[deviceOf[b]] THEN "release" ELSE "drop")
    /\ UNCHANGED <<fixed, present, bound, at, claimed, manager, stranded>>

\* release_interface of each interface of the active configuration,
ReleaseInterface(b) ==
    /\ upc[b] = "release"
    /\ At(b, "attach")
    /\ IF at[b] \in active[deviceOf[b]] /\ On(b) = b
       THEN Bind(b, Unbound) ELSE UNCHANGED bound
    /\ UNCHANGED <<fixed, present, at, maps, locks, stranded>>

\* Mutant: the kernel's driver is not asked back.
MutAttachDriver(b) ==
    /\ upc[b] = "attach"
    /\ Advance(b, "release", "drop")
    /\ UNCHANGED <<fixed, present, bound, maps, locks, stranded>>

\* and attach_kernel_driver, which finds the interface taken or no driver for it,
\* or the device gone: errors are ignored.
AttachDriver(b) ==
    /\ upc[b] = "attach"
    /\ Advance(b, "release", "drop")
    /\ IF /\ present[deviceOf[b]] /\ at[b] \in active[deviceOf[b]] \cap native[deviceOf[b]]
          /\ On(b) = Unbound
       THEN Bind(b, Kernel) ELSE UNCHANGED bound
    /\ UNCHANGED <<fixed, present, maps, locks, stranded>>

\* The handle is dropped, and both mutexes are unlocked.
ReleaseReturns(b) ==
    /\ upc[b] = "drop"
    /\ At(b, "idle")
    /\ bound' = Unclaim(b)
    /\ backend' = Free /\ manager' = Free
    /\ UNCHANGED <<fixed, present, at, maps, stranded>>

-----------------------------------------------------------------------------
\* The device is pulled.
Pull(d) ==
    /\ present[d]
    /\ present' = [present EXCEPT ![d] = FALSE]
    /\ UNCHANGED <<fixed, bound, upc, at, maps, locks, stranded>>

\* The steps that end a call once it has begun: those of a thread that waits for
\* nothing but a transfer, and those that lock a mutex.
RunsOn(b) ==
    \/ DetachDriver(b) \/ TakeInterface(b) \/ TransferEnds(b)
    \/ ReleaseInterface(b) \/ AttachDriver(b) \/ ReleaseReturns(b)

LocksMutex(b) == InsertHandle(b) \/ NoteClaim(b) \/ LookupHandle(b) \/ RemoveHandle(b)

UsbNext ==
    \/ \E b \in Busid : ClaimOpens(b) \/ ExecuteUrb(b) \/ ReleaseDevice(b)
                       \/ RunsOn(b) \/ LocksMutex(b)
    \/ \E d \in UsbDevice : Pull(d)

UsbSpec == UsbInit /\ [][UsbNext]_usbVars

-----------------------------------------------------------------------------
(***************************************************************************)
(* Properties                                                              *)
(***************************************************************************)
\* What the claim of a device is for the server: a lease of DeviceLease, which
\* begins when the first interface is claimed and ends when it is released, and
\* during which the handle is in the map for a while.
Lease == INSTANCE DeviceLease WITH
    Client <- Busid, Device <- UsbDevice, None <- Unbound, Gone <- Kernel,
    holder <- [d \in UsbDevice |-> IF bound[d][1] = Kernel THEN Unbound ELSE bound[d][1]],
    open <- {deviceOf[b] : b \in handles}

\* Two spellings of a device never both have a handle of it, though the exports
\* map takes them for two devices: whoever is in LibusbBackend.handles is the
\* leaseholder, and the lease ends after the handle has left the map.
BackendIsLease == Lease!Spec

\* A handle is in the map only with every interface claimed.
HandleHoldsAll ==
    \A b \in handles : \A i \in Iface : bound[deviceOf[b]][i] = b

\* Drivers return: an interface of a device that is there is without its kernel
\* driver only while a task is between claim and release of the device, or after
\* a claim that failed half-way (whose detached drivers nobody attaches again).
DriversReturn ==
    \A d \in UsbDevice : present[d] /\ d \notin stranded =>
        \A i \in native[d] : bound[d][i] = Unbound =>
            \E b \in Busid : deviceOf[b] = d /\ upc[b] # "idle"

\* The host gets back what a claim took: no handle without all interfaces, and no
\* driver missing after the release, unless a claim of the device failed half-way.
DriversKept == HandleHoldsAll /\ DriversReturn

\* The mutexes are taken in one order: whoever has the backend's waits for no
\* other, and whoever has the manager's waits for the backend's at most, so no
\* calls of any number can wait for each other in a circle.
MutexesInOrder ==
    \A b \in Busid :
        /\ backend = b => upc[b] \in {"transfer", "release", "attach", "drop"}
        /\ manager = b => upc[b] \in InExecute \cup InRelease

\* Every call of the manager returns: the two mutexes are never waited for in a
\* circle, and a transfer ends by its timeout.
CallsReturn ==
    \A b \in Busid : upc[b] \notin {"idle", "held"} ~> upc[b] \in {"idle", "held"}

\* A claim that fails leaves the device as it was.
FailedClaimRestores ==
    \A d \in UsbDevice : present[d] /\ (\A b \in Busid : deviceOf[b] = d => upc[b] = "idle")
        => \A i \in native[d] : bound[d][i] = Kernel

=============================================================================
