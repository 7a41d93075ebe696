------------------------------ MODULE VhciPorts -----------------------------
(***************************************************************************)
(* The ports of the virtual host controller on Linux (vhci_linux.rs):      *)
(* create_device looks for a free port in the status file and attaches to  *)
(* it with a second access; devid is the port.  Calls run in the tasks of  *)
(* the client (client.rs) without a lock, and no port is ever detached.    *)
(* The kernel module is external: it refuses a port that is in use.        *)
(***************************************************************************)
EXTENDS Naturals, FiniteSetsExt

CONSTANTS Attempt,    \* calls of create_device
          NumPorts,
          Vacant

ASSUME VhciAssumption == NumPorts \in Nat \ {0} /\ Vacant \notin Attempt

Port == 0..(NumPorts - 1)

VARIABLES
    table,     \* the kernel: the call whose device is at a port
    vpc,       \* a call: scan, attach, then its outcome
    devid,      \* the port it has chosen
    sighted       \* the table it has read (history)

vhciVars == <<table, vpc, devid, sighted>>

VhciTypeOK ==
    /\ table \in [Port -> Attempt \cup {Vacant}]
    /\ vpc \in [Attempt -> {"scan", "attach", "attached", "failed"}]
    /\ devid \in [Attempt -> Port]
    /\ sighted \in [Attempt -> [Port -> Attempt \cup {Vacant}]]

VhciInit ==
    /\ table = [p \in Port |-> Vacant]
    /\ vpc = [a \in Attempt |-> "scan"]
    /\ devid = [a \in Attempt |-> 0]
    /\ sighted = [a \in Attempt |-> table]

\* Mutant: the line number is counted with the heading.
MutFirstFreePort(t) ==
    LET free == {p \in Port : t[p] = Vacant} IN
    IF free = {} THEN 0 ELSE (Min(free) + 1) % NumPorts

\* first_free_port_in_sysfs, with its last resort.
FirstFreePort(t) ==
    LET free == {p \in Port : t[p] = Vacant} IN
    IF free = {} THEN 0 ELSE Min(free)

ScanPorts(a) ==
    /\ vpc[a] = "scan"
    /\ vpc' = [vpc EXCEPT ![a] = "attach"]
    /\ devid' = [devid EXCEPT ![a] = FirstFreePort(table)]
    /\ sighted' = [sighted EXCEPT ![a] = table]
    /\ UNCHANGED table

\* Mutant: the result of the write is ignored.
MutAttachPort(a) ==
    /\ vpc[a] = "attach"
    /\ vpc' = [vpc EXCEPT ![a] = "attached"]
    /\ table' = [table EXCEPT ![devid[a]] = IF @ = Vacant THEN a ELSE @]
    /\ UNCHANGED <<devid, sighted>>

\* The write to attach.
AttachPort(a) ==
    /\ vpc[a] = "attach"
    /\ IF table[devid[a]] = Vacant
       THEN /\ vpc' = [vpc EXCEPT ![a] = "attached"]
            /\ table' = [table EXCEPT ![devid[a]] = a]
       ELSE vpc' = [vpc EXCEPT ![a] = "failed"] /\ UNCHANGED table
    /\ UNCHANGED <<devid, sighted>>

VhciNext == \E a \in Attempt : ScanPorts(a) \/ AttachPort(a)

VhciSpec == VhciInit /\ [][VhciNext]_vhciVars

-----------------------------------------------------------------------------
\* The devid of an imported device leads complete_urb to that device: no two
\* imports that succeeded believe in the same port.
DevidIsOwn == \A a \in Attempt : vpc[a] = "attached" => table[devid[a]] = a

\* create_device fails only if every port was taken when it looked, or another
\* call attached to its port since.
RefusalHasCause ==
    \A a \in Attempt : vpc[a] = "failed" =>
        \/ \A p \in Port : sighted[a][p] # Vacant
        \/ sighted[a][devid[a]] = Vacant /\ table[devid[a]] # Vacant

\* An import finds a port as long as there are enough.
PortIsFound ==
    \A a \in Attempt : vpc[a] = "failed" => \A p \in Port : table[p] # Vacant

=============================================================================
