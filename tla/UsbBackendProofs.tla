-------------------------- MODULE UsbBackendProofs --------------------------
(***************************************************************************)
(* Proofs about UsbBackend, for any devices, interfaces and busids, its    *)
(* refinement of DeviceLease included.                                     *)
(***************************************************************************)
EXTENDS UsbBackend, TLAPS

-----------------------------------------------------------------------------
(***************************************************************************)
(* UsbBackend.  An interface stays bound to a handle until its own task    *)
(* releases it.  One release runs at a time, under the backend's mutex, so *)
(* what it gives back to the kernel is taken again only by a claim that is *)
(* still under way, or that has failed.                                    *)
(***************************************************************************)
\* Where a task holds its device, and where it gives it back.
Holding == {"insert", "note", "held", "lookup", "transfer", "remove"}
Releasing == {"release", "attach", "drop"}

\* The interfaces a claim has passed are its own.
ClaimInv ==
    \A b \in Busid : upc[b] \in {"detach", "take"} =>
        \A i \in Iface : i < at[b] =>
            bound[deviceOf[b]][i] = b /\ i \in active[deviceOf[b]]

\* So are all of them once it is over.
HoldInv ==
    \A b \in Busid : upc[b] \in Holding =>
        /\ at[b] = 1
        /\ \A i \in Iface : bound[deviceOf[b]][i] = b /\ i \in active[deviceOf[b]]

\* The backend's map holds the tasks between the insertion and the removal.
HandleInv == \A b \in Busid : b \in handles <=> upc[b] \in Holding \ {"insert"}

\* A transfer and a release run under the backend's mutex.
LockInv == \A b \in Busid : upc[b] \in Releasing \cup {"transfer"} => backend = b

\* Another call is under way on the same device.
Rival(b) == \E c \in Busid \ {b} : deviceOf[c] = deviceOf[b] /\ upc[c] # "idle"

\* What a release has passed has its driver again, unless the device is gone, or
\* another claim is or was at work on it.
Returned(b) ==
    /\ \A i \in Iface : i \in active[deviceOf[b]]
    /\ upc[b] = "attach" => bound[deviceOf[b]][at[b]] # b
    /\ present[deviceOf[b]] /\ deviceOf[b] \notin stranded =>
          \A i \in native[deviceOf[b]] :
              (upc[b] = "drop" \/ i < at[b]) =>
                  bound[deviceOf[b]][i] \notin {Unbound, b} \/ Rival(b)

ReturnInv == \A b \in Busid : upc[b] \in Releasing => Returned(b)

BInv ==
    /\ UsbTypeOK /\ ClaimInv /\ HoldInv /\ HandleInv /\ LockInv /\ ReturnInv
    /\ DriversReturn

USE DEF Iface, InClaim, InExecute, InRelease, Holding, Releasing

\* All drivers are in place at the start.
LEMMA InitBInv == UsbInit => BInv
<1> SUFFICES ASSUME UsbInit PROVE BInv
  OBVIOUS
<1>1. UsbTypeOK
  <2>1. /\ present \in [UsbDevice -> BOOLEAN]
        /\ active \in [UsbDevice -> SUBSET Iface] /\ native \in [UsbDevice -> SUBSET Iface]
    <3>1. present \in [UsbDevice -> BOOLEAN]
      BY Zenon DEF UsbInit
    <3> HIDE DEF Iface
    <3>2. \A d \in UsbDevice : active[d] \subseteq Iface /\ native[d] \subseteq Iface
      BY DEF UsbInit
    <3>3. QED
      BY <3>1, <3>2, Zenon DEF UsbInit
  <2>2. bound \in [UsbDevice -> [Iface -> Busid \cup {Kernel, Unbound}]]
    BY DEF UsbInit
  <2>3. at \in [Busid -> Iface]
    BY BackendAssumption DEF UsbInit
  <2>4. QED
    BY <2>1, <2>2, <2>3 DEF UsbInit, UsbTypeOK
<1>2. ClaimInv /\ HoldInv /\ HandleInv /\ LockInv /\ ReturnInv
  BY DEF UsbInit, ClaimInv, HoldInv, HandleInv, LockInv, ReturnInv
<1>3. DriversReturn
  BY <1>1, BackendAssumption DEF UsbInit, UsbTypeOK, DriversReturn
<1>4. QED
  BY <1>1, <1>2, <1>3 DEF BInv

\* Binding one interface.
LEMMA BindBinds ==
  ASSUME UsbTypeOK, NEW b \in Busid, NEW x \in Busid \cup {Kernel, Unbound}, Bind(b, x)
  PROVE  /\ bound' \in [UsbDevice -> [Iface -> Busid \cup {Kernel, Unbound}]]
         /\ \A d \in UsbDevice, i \in Iface :
               bound'[d][i] = IF d = deviceOf[b] /\ i = at[b] THEN x ELSE bound[d][i]
  BY Zenon DEF UsbTypeOK, Bind

\* Dropping a handle.
LEMMA UnclaimUnbinds ==
  ASSUME UsbTypeOK, NEW b \in Busid, bound' = Unclaim(b)
  PROVE  /\ bound' \in [UsbDevice -> [Iface -> Busid \cup {Kernel, Unbound}]]
         /\ \A d \in UsbDevice, i \in Iface :
               bound'[d][i] = IF d = deviceOf[b] /\ bound[d][i] = b
                              THEN Unbound ELSE bound[d][i]
  BY Zenon DEF UsbTypeOK, Unclaim

-----------------------------------------------------------------------------
(* Steps that bind and unbind nothing *)

\* A call begins.
LEMMA OpenStep ==
  ASSUME BInv, NEW b \in Busid, ClaimOpens(b)
  PROVE  BInv'
<1> USE DEF ClaimOpens, At, fixed, maps, locks, BInv
<1>1. UsbTypeOK'
  BY BackendAssumption DEF UsbTypeOK
<1>2. ClaimInv' /\ HoldInv' /\ HandleInv' /\ LockInv'
  BY BackendAssumption DEF UsbTypeOK, ClaimInv, HoldInv, HandleInv, LockInv
<1>3. ReturnInv'
  <2>1. \A c \in Busid : Rival(c) => Rival(c)'
    BY DEF Rival, UsbTypeOK
  <2>2. QED
    BY <2>1 DEF UsbTypeOK, ReturnInv, Returned
<1>4. DriversReturn'
  BY DEF UsbTypeOK, DriversReturn
<1>5. QED
  BY <1>1, <1>2, <1>3, <1>4

\* The maps and the mutexes change, the interface a call is at does not.
LEMMA MapStep ==
  ASSUME BInv, NEW b \in Busid,
         \/ InsertHandle(b) \/ NoteClaim(b)
         \/ ExecuteUrb(b) \/ LookupHandle(b) \/ TransferEnds(b)
         \/ ReleaseDevice(b) \/ RemoveHandle(b)
  PROVE  BInv'
<1> USE DEF At, fixed, maps, locks, BInv
<1>1. UsbTypeOK'
  BY ZenonT(30) DEF UsbTypeOK, InsertHandle, NoteClaim, ExecuteUrb, LookupHandle, TransferEnds,
     ReleaseDevice, RemoveHandle
<1>2. /\ UNCHANGED <<fixed, present, bound, at, stranded>>
      /\ upc[b] \in Holding
      /\ \E label \in Holding \cup {"release", "drop"} :
            /\ upc' = [upc EXCEPT ![b] = label]
            /\ label \in {"release", "drop"} => backend' = b
            /\ label = "drop" => ~present[deviceOf[b]]
            /\ label # "insert"
  BY DEF InsertHandle, NoteClaim, ExecuteUrb, LookupHandle, TransferEnds, ReleaseDevice,
     RemoveHandle
<1>3. ClaimInv' /\ HoldInv'
  BY <1>2 DEF UsbTypeOK, ClaimInv, HoldInv
<1>4. HandleInv'
  <2>1. \A c \in Busid \ {b} : upc'[c] = upc[c] /\ (c \in handles' <=> c \in handles)
    BY SMTT(30) DEF UsbTypeOK, InsertHandle, NoteClaim, ExecuteUrb, LookupHandle, TransferEnds,
       ReleaseDevice, RemoveHandle
  <2>2. b \in handles' <=> upc'[b] \in Holding \ {"insert"}
    BY SMTT(30) DEF UsbTypeOK, HandleInv, InsertHandle, NoteClaim, ExecuteUrb, LookupHandle,
       TransferEnds, ReleaseDevice, RemoveHandle
  <2>3. QED
    BY <2>1, <2>2, SMTT(30) DEF HandleInv
<1>5. LockInv'
  BY BackendAssumption DEF UsbTypeOK, LockInv, InsertHandle, NoteClaim, ExecuteUrb,
     LookupHandle, TransferEnds, ReleaseDevice, RemoveHandle
<1>6. ReturnInv'
  <2>1. \A c \in Busid : Rival(c) => Rival(c)'
    BY <1>2 DEF Rival, UsbTypeOK
  <2>2. QED
    BY <1>2, <2>1 DEF UsbTypeOK, ReturnInv, Returned, HoldInv
<1>7. DriversReturn'
  BY <1>2 DEF UsbTypeOK, DriversReturn
<1>8. QED
  BY <1>1, <1>3, <1>4, <1>5, <1>6, <1>7

\* The device is pulled.
LEMMA PullStep ==
  ASSUME BInv, NEW d \in UsbDevice, Pull(d)
  PROVE  BInv'
<1> USE DEF Pull, fixed, maps, locks, BInv
<1>1. UsbTypeOK' /\ ClaimInv' /\ HoldInv' /\ HandleInv' /\ LockInv' /\ DriversReturn'
  BY DEF UsbTypeOK, ClaimInv, HoldInv, HandleInv, LockInv, DriversReturn
<1>2. ReturnInv'
  BY DEF UsbTypeOK, ReturnInv, Returned, Rival
<1>3. QED
  BY <1>1, <1>2

-----------------------------------------------------------------------------
(* Steps that bind and unbind *)

\* A step of another task, which takes no interface of c and unbinds none, except
\* as a rival or where it fails.
LEMMA OtherReturns ==
  ASSUME UsbTypeOK, NEW c \in Busid, upc[c] \in Releasing, Returned(c),
         UNCHANGED <<deviceOf, active, native, present>>,
         upc'[c] = upc[c], at'[c] = at[c], stranded \subseteq stranded',
         \A i \in Iface : bound[deviceOf[c]][i] # c => bound'[deviceOf[c]][i] # c,
         deviceOf[c] \notin stranded' =>
            /\ Rival(c) => Rival(c)'
            /\ \A i \in Iface : bound'[deviceOf[c]][i] = Unbound =>
                  bound[deviceOf[c]][i] = Unbound \/ Rival(c)'
  PROVE  Returned(c)'
<1>1. native[deviceOf[c]] \subseteq Iface /\ at[c] \in Iface /\ deviceOf[c] \in UsbDevice
  BY Zenon DEF UsbTypeOK
<1>2. \A i \in Iface : i \in active'[deviceOf'[c]]
  BY DEF Returned
<1>3. upc'[c] = "attach" => bound'[deviceOf'[c]][at'[c]] # c
  BY <1>1 DEF Returned
<1>4. ASSUME present[deviceOf[c]], deviceOf[c] \notin stranded',
             NEW i \in native[deviceOf[c]], upc[c] = "drop" \/ i < at[c]
      PROVE  bound'[deviceOf[c]][i] \notin {Unbound, c} \/ Rival(c)'
  <2>1. bound[deviceOf[c]][i] \notin {Unbound, c} \/ Rival(c)
    BY <1>4 DEF Returned
  <2>2. QED
    BY <1>1, <1>4, <2>1, SMTT(30)
<1>5. QED
  BY <1>2, <1>3, <1>4 DEF Returned

\* A driver is detached, or there is none.
LEMMA DetachStep ==
  ASSUME BInv, NEW b \in Busid, DetachDriver(b)
  PROVE  BInv'
<1> USE DEF BInv
<1>1. /\ upc[b] = "detach" /\ upc' = [upc EXCEPT ![b] = "take"]
      /\ UNCHANGED <<deviceOf, active, native, present, at, handles, claimed, backend,
                     manager, stranded>>
  BY DEF DetachDriver, At, fixed, maps, locks
<1>2. /\ bound' \in [UsbDevice -> [Iface -> Busid \cup {Kernel, Unbound}]]
      /\ \A d \in UsbDevice, i \in Iface :
            \/ bound'[d][i] = bound[d][i]
            \/ d = deviceOf[b] /\ bound[d][i] = Kernel /\ bound'[d][i] = Unbound
  <2>1. CASE UNCHANGED bound
    BY <2>1 DEF UsbTypeOK
  <2>2. CASE On(b) = Kernel /\ Bind(b, Unbound)
    BY <2>2, BindBinds DEF On, UsbTypeOK
  <2>3. QED
    BY <2>1, <2>2 DEF DetachDriver
<1>3. UsbTypeOK'
  BY <1>1, <1>2 DEF UsbTypeOK
<1>4. ClaimInv' /\ HoldInv' /\ HandleInv' /\ LockInv'
  BY <1>1, <1>2, BackendAssumption, SMTT(30)
     DEF UsbTypeOK, ClaimInv, HoldInv, HandleInv, LockInv
<1>5. ReturnInv'
  <2>1. \A c \in Busid : Rival(c) => Rival(c)'
    BY <1>1 DEF Rival, UsbTypeOK
  <2>2. \A c \in Busid : c # b /\ deviceOf[c] = deviceOf[b] => Rival(c)'
    BY <1>1 DEF Rival, UsbTypeOK
  <2> SUFFICES ASSUME NEW c \in Busid, upc'[c] \in Releasing PROVE Returned(c)'
    BY DEF ReturnInv
  <2>3. c # b /\ upc'[c] = upc[c] /\ deviceOf[c] \in UsbDevice
    BY <1>1 DEF UsbTypeOK
  <2>4. /\ \A i \in Iface : bound[deviceOf[c]][i] # c => bound'[deviceOf[c]][i] # c
        /\ \A i \in Iface : bound'[deviceOf[c]][i] = Unbound =>
              bound[deviceOf[c]][i] = Unbound \/ Rival(c)'
    BY <1>2, <2>2, <2>3, BackendAssumption
  <2>5. QED
    BY <1>1, <2>1, <2>3, <2>4, OtherReturns DEF ReturnInv
<1>6. DriversReturn'
  BY <1>1, <1>2 DEF UsbTypeOK, DriversReturn
<1>7. QED
  BY <1>3, <1>4, <1>5, <1>6

\* The position of a call moves on.
LEMMA AdvanceMoves ==
  ASSUME UsbTypeOK, NEW b \in Busid, NEW first, NEW label, Advance(b, first, label)
  PROVE  /\ at' \in [Busid -> Iface]
         /\ \A c \in Busid : c # b => at'[c] = at[c]
         /\ \/ at[b] = NumIfaces /\ at'[b] = 1 /\ upc' = [upc EXCEPT ![b] = label]
            \/ /\ at[b] < NumIfaces /\ at'[b] = at[b] + 1
               /\ upc' = [upc EXCEPT ![b] = first]
<1>1. at \in [Busid -> Iface] /\ at[b] \in Nat /\ at[b] <= NumIfaces /\ NumIfaces \in Nat
  BY BackendAssumption DEF UsbTypeOK
<1>2. CASE at[b] = NumIfaces
  BY <1>1, <1>2, BackendAssumption DEF Advance, At
<1>3. CASE at[b] # NumIfaces
  <2>1. at[b] < NumIfaces /\ at[b] + 1 \in Iface
    BY <1>1, <1>3
  <2>2. QED
    BY <1>1, <1>3, <2>1 DEF Advance, At
<1>4. QED
  BY <1>2, <1>3

\* An interface is claimed, or the claim fails and its handle is dropped.
LEMMA TakeStep ==
  ASSUME BInv, NEW b \in Busid, TakeInterface(b)
  PROVE  BInv'
<1> USE DEF BInv
<1> DEFINE d == deviceOf[b]
<1>1. /\ upc[b] = "take"
      /\ UNCHANGED <<deviceOf, active, native, present, handles, claimed, backend, manager>>
      /\ d \in UsbDevice /\ at[b] \in Iface
  BY DEF TakeInterface, fixed, maps, locks, UsbTypeOK
<1>2. CASE present[d] /\ at[b] \in active[d] /\ On(b) = Unbound
  <2>1. Bind(b, b) /\ Advance(b, "detach", "insert") /\ UNCHANGED stranded
    BY <1>2 DEF TakeInterface
  <2>2. /\ bound' \in [UsbDevice -> [Iface -> Busid \cup {Kernel, Unbound}]]
        /\ \A e \in UsbDevice, i \in Iface :
              bound'[e][i] = IF e = d /\ i = at[b] THEN b ELSE bound[e][i]
    BY <2>1, BindBinds
  <2>3. /\ at' \in [Busid -> Iface] /\ \A c \in Busid : c # b => at'[c] = at[c]
        /\ \/ at[b] = NumIfaces /\ at'[b] = 1 /\ upc' = [upc EXCEPT ![b] = "insert"]
           \/ /\ at[b] < NumIfaces /\ at'[b] = at[b] + 1
              /\ upc' = [upc EXCEPT ![b] = "detach"]
    BY <2>1, AdvanceMoves
  <2>4. \A c \in Busid : c # b => upc'[c] = upc[c] /\ at'[c] = at[c]
    BY <2>3 DEF UsbTypeOK
  <2>5. bound[d][at[b]] = Unbound
    BY <1>2 DEF On
  <2>6. \A c \in Busid, e \in UsbDevice, i \in Iface :
           bound[e][i] = c => bound'[e][i] = c
    BY <2>2, <2>5, BackendAssumption
  <2>7. UsbTypeOK'
    BY <1>1, <2>1, <2>2, <2>3, ZenonT(30) DEF UsbTypeOK
  <2>8. ClaimInv'
    <3>1. upc'[b] = "detach" => \A i \in Iface : i < at'[b] => bound'[d][i] = b /\ i \in active[d]
      BY <1>1, <1>2, <2>2, <2>3, BackendAssumption, SMTT(30) DEF ClaimInv, UsbTypeOK
    <3>2. QED
      <4> SUFFICES ASSUME NEW c \in Busid, upc'[c] \in {"detach", "take"}, NEW i \in Iface, i < at'[c]
                   PROVE  bound'[deviceOf[c]][i] = c /\ i \in active[deviceOf[c]]
        BY <1>1 DEF ClaimInv
      <4>1. CASE c = b
        BY <2>3, <3>1, <4>1 DEF UsbTypeOK
      <4>2. CASE c # b
        BY <2>4, <2>6, <4>2 DEF ClaimInv, UsbTypeOK
      <4>3. QED
        BY <4>1, <4>2
  <2>9. HoldInv'
    <3>1. upc'[b] = "insert" => at'[b] = 1 /\ \A i \in Iface : bound'[d][i] = b /\ i \in active[d]
      BY <1>1, <1>2, <2>2, <2>3, BackendAssumption DEF ClaimInv, UsbTypeOK
    <3>2. upc'[b] \in {"insert", "detach"}
      BY <2>3 DEF UsbTypeOK
    <3>3. QED
      <4> SUFFICES ASSUME NEW c \in Busid, upc'[c] \in Holding
                   PROVE  /\ at'[c] = 1
                          /\ \A i \in Iface : bound'[deviceOf[c]][i] = c /\ i \in active[deviceOf[c]]
        BY <1>1 DEF HoldInv
      <4>1. CASE c = b
        BY <3>1, <3>2, <4>1
      <4>2. CASE c # b
        <5>1. upc[c] \in Holding /\ at'[c] = at[c] /\ deviceOf[c] \in UsbDevice
          BY <2>4, <4>2, Zenon DEF UsbTypeOK
        <5>2. QED
          BY <2>6, <5>1, SMTT(30) DEF HoldInv
      <4>3. QED
        BY <4>1, <4>2
  <2>10. HandleInv' /\ LockInv'
    BY <1>1, <2>3, ZenonT(30) DEF HandleInv, LockInv, UsbTypeOK
  <2>11. \A c \in Busid : Rival(c) => Rival(c)'
    BY <1>1, <2>3 DEF Rival, UsbTypeOK
  <2>12. ReturnInv'
    <3> SUFFICES ASSUME NEW c \in Busid, upc'[c] \in Releasing PROVE Returned(c)'
      BY DEF ReturnInv
    <3>1. c # b /\ upc'[c] = upc[c] /\ at'[c] = at[c] /\ deviceOf[c] \in UsbDevice
      BY <2>3, <2>4, SMTT(30) DEF UsbTypeOK
    <3>2. /\ \A i \in Iface : bound[deviceOf[c]][i] # c => bound'[deviceOf[c]][i] # c
          /\ \A i \in Iface : bound'[deviceOf[c]][i] = Unbound =>
                bound[deviceOf[c]][i] = Unbound
      BY <2>2, <3>1, BackendAssumption, SMTT(30)
    <3>3. QED
      BY <1>1, <2>1, <2>11, <3>1, <3>2, OtherReturns DEF ReturnInv
  <2>13. DriversReturn'
    BY <1>1, <2>1, <2>2, <2>3, BackendAssumption, SMTT(30) DEF UsbTypeOK, DriversReturn
  <2>14. QED
    BY <2>7, <2>8, <2>9, <2>10, <2>12, <2>13
<1>3. CASE ~(present[d] /\ at[b] \in active[d] /\ On(b) = Unbound)
  <2>1. /\ bound' = Unclaim(b) /\ upc' = [upc EXCEPT ![b] = "idle"]
        /\ at' = [at EXCEPT ![b] = 1] /\ stranded' = stranded \cup {d}
    BY <1>3, Zenon DEF TakeInterface, At
  <2>2. /\ bound' \in [UsbDevice -> [Iface -> Busid \cup {Kernel, Unbound}]]
        /\ \A e \in UsbDevice, i \in Iface :
              bound'[e][i] = IF e = d /\ bound[e][i] = b THEN Unbound ELSE bound[e][i]
    BY <2>1, UnclaimUnbinds, Zenon
  <2>3. UsbTypeOK'
    BY <1>1, <2>1, <2>2, BackendAssumption, SMTT(30) DEF UsbTypeOK
  <2>4. ClaimInv' /\ HoldInv' /\ HandleInv' /\ LockInv'
    BY <1>1, <2>1, <2>2, SMTT(30) DEF ClaimInv, HoldInv, HandleInv, LockInv, UsbTypeOK
  <2>5. ReturnInv'
    <3> SUFFICES ASSUME NEW c \in Busid, upc'[c] \in Releasing PROVE Returned(c)'
      BY DEF ReturnInv
    <3>1. c # b /\ upc'[c] = upc[c] /\ at'[c] = at[c] /\ deviceOf[c] \in UsbDevice
      BY <2>1 DEF UsbTypeOK
    <3>2. \A i \in Iface : bound[deviceOf[c]][i] # c => bound'[deviceOf[c]][i] # c
      BY <2>2, <3>1, BackendAssumption, Zenon
    <3>3. deviceOf[c] \notin stranded' =>
             /\ Rival(c) => Rival(c)'
             /\ \A i \in Iface : bound'[deviceOf[c]][i] = Unbound =>
                   bound[deviceOf[c]][i] = Unbound
      BY <1>1, <2>1, <2>2, <3>1, ZenonT(30) DEF Rival, UsbTypeOK
    <3>4. QED
      BY <1>1, <2>1, <3>1, <3>2, <3>3, OtherReturns DEF ReturnInv
  <2>6. DriversReturn'
    <3> SUFFICES ASSUME NEW e \in UsbDevice, present[e], e \notin stranded \cup {d},
                        NEW i \in native[e], bound'[e][i] = Unbound
                 PROVE  \E c \in Busid : deviceOf[c] = e /\ upc'[c] # "idle"
      BY <1>1, <2>1 DEF DriversReturn
    <3>1. bound[e][i] = Unbound
      BY <2>2, SMTT(30) DEF UsbTypeOK
    <3>2. PICK c \in Busid : deviceOf[c] = e /\ upc[c] # "idle"
      BY <3>1, Zenon DEF DriversReturn
    <3>3. c # b
      BY <3>2
    <3>4. QED
      BY <2>1, <3>2, <3>3, Zenon DEF UsbTypeOK
  <2>7. QED
    BY <2>3, <2>4, <2>5, <2>6
<1>4. QED
  BY <1>2, <1>3

\* A release is alone: the other tasks keep what they have claimed.
LEMMA AloneInRelease ==
  ASSUME BInv, NEW b \in Busid, upc[b] \in Releasing, UsbTypeOK',
         UNCHANGED <<deviceOf, active, handles>>,
         upc'[b] \in Releasing \cup {"idle"}, upc'[b] \in Releasing => backend' = b,
         \A c \in Busid : c # b => upc'[c] = upc[c] /\ at'[c] = at[c],
         \A c \in Busid, e \in UsbDevice, i \in Iface :
            c # b /\ bound[e][i] = c => bound'[e][i] = c
  PROVE  ClaimInv' /\ HoldInv' /\ HandleInv' /\ LockInv'
<1> USE DEF BInv
<1>1. \A c \in Busid : c # b => upc[c] \notin Releasing \cup {"transfer"}
  BY Zenon DEF LockInv
<1>2. \A c \in Busid : deviceOf[c] \in UsbDevice
  BY Zenon DEF UsbTypeOK
<1>3. \A c \in Busid : upc'[c] \notin Releasing \cup {"idle"} => c # b
  BY Zenon
<1>4. ClaimInv'
  BY <1>2, <1>3, SMTT(30) DEF ClaimInv
<1>5. HoldInv'
  BY <1>2, <1>3, SMTT(30) DEF HoldInv
<1>6. HandleInv' /\ LockInv'
  BY <1>1, ZenonT(30) DEF HandleInv, LockInv, UsbTypeOK
<1>7. QED
  BY <1>4, <1>5, <1>6

\* An interface is released.
LEMMA ReleaseStep ==
  ASSUME BInv, NEW b \in Busid, ReleaseInterface(b)
  PROVE  BInv'
<1> USE DEF BInv
<1> DEFINE d == deviceOf[b]
<1>1. /\ upc[b] = "release" /\ upc' = [upc EXCEPT ![b] = "attach"]
      /\ UNCHANGED <<deviceOf, active, native, present, at, handles, claimed, backend,
                     manager, stranded>>
      /\ d \in UsbDevice /\ at[b] \in Iface
  BY Zenon DEF ReleaseInterface, At, fixed, maps, locks, UsbTypeOK
<1>2. /\ bound' \in [UsbDevice -> [Iface -> Busid \cup {Kernel, Unbound}]]
      /\ \A e \in UsbDevice, i \in Iface :
            bound'[e][i] = IF e = d /\ i = at[b] /\ i \in active[d] /\ bound[d][i] = b
                           THEN Unbound ELSE bound[e][i]
  <2>1. CASE at[b] \in active[d] /\ On(b) = b
    BY <2>1, BindBinds DEF ReleaseInterface, On
  <2>2. CASE ~(at[b] \in active[d] /\ On(b) = b)
    BY <2>2, Zenon DEF ReleaseInterface, On, UsbTypeOK
  <2>3. QED
    BY <2>1, <2>2, Zenon
<1>3. UsbTypeOK'
  BY <1>1, <1>2, Zenon DEF UsbTypeOK
<1>4. ClaimInv' /\ HoldInv' /\ HandleInv' /\ LockInv'
  <2>1. \A c \in Busid, e \in UsbDevice, i \in Iface :
           c # b /\ bound[e][i] = c => bound'[e][i] = c
    BY <1>2
  <2>2. backend = b /\ upc'[b] = "attach" /\ \A c \in Busid : c # b => upc'[c] = upc[c]
    BY <1>1 DEF LockInv, UsbTypeOK
  <2>3. QED
    BY <1>1, <1>3, <2>1, <2>2, AloneInRelease, Zenon
<1>5. ReturnInv'
  <2>1. \A c \in Busid : upc'[c] \in Releasing => c = b
    BY <1>1 DEF LockInv, UsbTypeOK
  <2>2. Returned(b)
    BY <1>1, Zenon DEF ReturnInv
  <2>3. bound'[d][at[b]] # b
    <3>1. at[b] \in active[d]
      BY <1>1, <2>2, Zenon DEF Returned
    <3>2. bound'[d][at[b]] = IF bound[d][at[b]] = b THEN Unbound ELSE bound[d][at[b]]
      BY <1>1, <1>2, <3>1, Zenon
    <3>3. QED
      BY <3>2, BackendAssumption
  <2>4. Rival(b) => Rival(b)'
    BY <1>1 DEF Rival, UsbTypeOK
  <2>5. upc'[b] = "attach"
    BY <1>1, Zenon DEF UsbTypeOK
  <2>6. ASSUME present[d], d \notin stranded, NEW i \in native[d], i < at[b]
        PROVE  bound'[d][i] \notin {Unbound, b} \/ Rival(b)'
    <3>1. i \in Iface /\ i # at[b]
      BY <1>1, <2>6, SMTT(30) DEF UsbTypeOK
    <3>2. QED
      BY <1>1, <1>2, <2>2, <2>4, <2>6, <3>1, Zenon DEF Returned
  <2>7. Returned(b)'
    BY <1>1, <2>2, <2>3, <2>5, <2>6, Zenon DEF Returned
  <2>8. QED
    BY <2>1, <2>7 DEF ReturnInv
<1>6. DriversReturn'
  BY <1>1, <1>2, SMTT(30) DEF UsbTypeOK, DriversReturn
<1>7. QED
  BY <1>3, <1>4, <1>5, <1>6

\* The kernel's driver is asked back.
LEMMA AttachStep ==
  ASSUME BInv, NEW b \in Busid, AttachDriver(b)
  PROVE  BInv'
<1> USE DEF BInv
<1> DEFINE d == deviceOf[b]
<1>1. /\ upc[b] = "attach"
      /\ UNCHANGED <<deviceOf, active, native, present, handles, claimed, backend,
                     manager, stranded>>
      /\ d \in UsbDevice /\ at[b] \in Iface
  BY Zenon DEF AttachDriver, fixed, maps, locks, UsbTypeOK
<1>2. /\ bound' \in [UsbDevice -> [Iface -> Busid \cup {Kernel, Unbound}]]
      /\ \A e \in UsbDevice, i \in Iface :
            bound'[e][i] = IF /\ e = d /\ i = at[b] /\ bound[d][i] = Unbound
                              /\ present[d] /\ i \in active[d] \cap native[d]
                           THEN Kernel ELSE bound[e][i]
  <2> DEFINE Works == /\ present[d] /\ at[b] \in active[d] \cap native[d]
                      /\ On(b) = Unbound
  <2>1. CASE Works
    BY <2>1, BindBinds, SMTT(30) DEF AttachDriver, On
  <2>2. CASE ~Works
    BY <2>2, SMTT(30) DEF AttachDriver, On, UsbTypeOK
  <2>3. QED
    BY <2>1, <2>2, Zenon
<1>3. /\ at' \in [Busid -> Iface] /\ \A c \in Busid : c # b => at'[c] = at[c]
      /\ \/ at[b] = NumIfaces /\ at'[b] = 1 /\ upc' = [upc EXCEPT ![b] = "drop"]
         \/ /\ at[b] < NumIfaces /\ at'[b] = at[b] + 1
            /\ upc' = [upc EXCEPT ![b] = "release"]
  BY AdvanceMoves, ZenonT(30) DEF AttachDriver
<1>4. UsbTypeOK'
  BY <1>1, <1>2, <1>3, Zenon DEF UsbTypeOK
<1>5. upc'[b] \in {"release", "drop"} /\ \A c \in Busid : c # b => upc'[c] = upc[c]
  BY <1>3, Zenon DEF UsbTypeOK
<1>6. ClaimInv' /\ HoldInv' /\ HandleInv' /\ LockInv'
  <2>1. \A c \in Busid, e \in UsbDevice, i \in Iface :
           c # b /\ bound[e][i] = c => bound'[e][i] = c
    BY <1>2, BackendAssumption, ZenonT(30)
  <2>2. backend = b
    BY <1>1, Zenon DEF LockInv
  <2>3. QED
    BY <1>1, <1>3, <1>4, <1>5, <2>1, <2>2, AloneInRelease, ZenonT(30)
<1>7. ReturnInv'
  <2>1. \A c \in Busid : upc'[c] \in Releasing => c = b
    BY <1>1, <1>5 DEF LockInv, UsbTypeOK
  <2>2. Returned(b)
    BY <1>1, Zenon DEF ReturnInv
  <2>3. Rival(b) => Rival(b)'
    BY <1>1, <1>5, Zenon DEF Rival
  <2>4. ASSUME present[d], d \notin stranded, NEW i \in native[d],
               upc'[b] = "drop" \/ i < at'[b]
        PROVE  bound'[d][i] \notin {Unbound, b} \/ Rival(b)'
    <3>1. i \in Iface /\ i <= at[b]
      BY <1>1, <1>3, <2>4, BackendAssumption, SMTT(30) DEF UsbTypeOK
    <3>2. CASE i = at[b]
      BY <1>1, <1>2, <2>2, <2>4, <3>1, <3>2, BackendAssumption, Zenon DEF Returned
    <3>3. CASE i < at[b]
      BY <1>1, <1>2, <2>2, <2>3, <2>4, <3>1, <3>3, Zenon DEF Returned
    <3>4. QED
      BY <1>1, <3>1, <3>2, <3>3, SMTT(30)
  <2>5. Returned(b)'
    BY <1>1, <1>5, <2>2, <2>4, Zenon DEF Returned
  <2>6. QED
    BY <2>1, <2>5 DEF ReturnInv
<1>8. DriversReturn'
  BY <1>1, <1>2, <1>5, BackendAssumption, SMTT(30) DEF UsbTypeOK, DriversReturn
<1>9. QED
  BY <1>4, <1>6, <1>7, <1>8

\* The handle is dropped.
LEMMA DropStep ==
  ASSUME BInv, NEW b \in Busid, ReleaseReturns(b)
  PROVE  BInv'
<1> USE DEF BInv
<1> DEFINE d == deviceOf[b]
<1>1. /\ upc[b] = "drop" /\ upc' = [upc EXCEPT ![b] = "idle"]
      /\ UNCHANGED <<deviceOf, active, native, present, at, handles, claimed, stranded>>
      /\ backend' = Free /\ manager' = Free
      /\ d \in UsbDevice
  BY SMTT(30) DEF ReleaseReturns, At, fixed, maps, UsbTypeOK
<1>2. /\ bound' \in [UsbDevice -> [Iface -> Busid \cup {Kernel, Unbound}]]
      /\ \A e \in UsbDevice, i \in Iface :
            bound'[e][i] = IF e = d /\ bound[e][i] = b THEN Unbound ELSE bound[e][i]
  BY UnclaimUnbinds, ZenonT(30) DEF ReleaseReturns
<1>3. UsbTypeOK'
  BY <1>1, <1>2 DEF UsbTypeOK
<1>4. upc'[b] = "idle" /\ \A c \in Busid : c # b => upc'[c] = upc[c]
  BY <1>1, SMTT(30) DEF UsbTypeOK
<1>5. ClaimInv' /\ HoldInv' /\ HandleInv' /\ LockInv'
  BY <1>1, <1>2, <1>3, <1>4, AloneInRelease, ZenonT(30)
<1>6. ReturnInv'
  BY <1>1, <1>4, Zenon DEF LockInv, ReturnInv
<1>7. DriversReturn'
  <2> SUFFICES ASSUME NEW e \in UsbDevice, present[e], e \notin stranded,
                      NEW i \in native[e], bound'[e][i] = Unbound
               PROVE  \E c \in Busid : deviceOf[c] = e /\ upc'[c] # "idle"
    BY <1>1 DEF DriversReturn
  <2>1. i \in Iface
    BY SMTT(30) DEF UsbTypeOK
  <2>2. CASE e = d
    <3>1. Rival(b)
      BY <1>1, <1>2, <2>1, <2>2, ZenonT(30) DEF ReturnInv, Returned
    <3>2. QED
      BY <1>4, <2>2, <3>1, SMTT(30) DEF Rival
  <2>3. CASE e # d
    <3>1. bound[e][i] = Unbound
      BY <1>2, <2>1, <2>3, Zenon
    <3>2. PICK c \in Busid : deviceOf[c] = e /\ upc[c] # "idle"
      BY <3>1 DEF DriversReturn
    <3>3. QED
      BY <1>4, <2>3, <3>2, SMTT(30)
  <2>4. QED
    BY <2>2, <2>3, SMTT(30)
<1>8. QED
  BY <1>3, <1>5, <1>6, <1>7

-----------------------------------------------------------------------------
(* Theorems *)

\* Every step keeps the invariant.
LEMMA NextBInv == BInv /\ [UsbNext]_usbVars => BInv'
<1> SUFFICES ASSUME BInv, [UsbNext]_usbVars PROVE BInv'
  OBVIOUS
<1>1. CASE UNCHANGED usbVars
  <2>1. /\ deviceOf' = deviceOf /\ present' = present /\ active' = active /\ native' = native
        /\ bound' = bound /\ upc' = upc /\ at' = at /\ handles' = handles
        /\ claimed' = claimed /\ backend' = backend /\ manager' = manager
        /\ stranded' = stranded
    BY <1>1 DEF usbVars
  <2>2. UsbTypeOK' /\ DriversReturn'
    BY <2>1, Zenon DEF BInv, UsbTypeOK, DriversReturn
  <2>3. ClaimInv' /\ HoldInv'
    BY <2>1, Zenon DEF BInv, ClaimInv, HoldInv
  <2>4. HandleInv' /\ LockInv'
    BY <2>1, Zenon DEF BInv, HandleInv, LockInv
  <2>5. ReturnInv'
    <3>1. \A c \in Busid : Rival(c) => Rival(c)'
      BY <2>1, Zenon DEF Rival
    <3>2. \A c \in Busid : Returned(c) => Returned(c)'
      BY <2>1, <3>1, ZenonT(30) DEF Returned
    <3>3. QED
      BY <2>1, <3>2, Zenon DEF BInv, ReturnInv
  <2>6. QED
    BY <2>2, <2>3, <2>4, <2>5 DEF BInv
<1>2. ASSUME NEW b \in Busid,
             ClaimOpens(b) \/ ExecuteUrb(b) \/ ReleaseDevice(b) \/ RunsOn(b) \/ LocksMutex(b)
      PROVE  BInv'
  BY <1>2, OpenStep, MapStep, DetachStep, TakeStep, ReleaseStep, AttachStep, DropStep
     DEF RunsOn, LocksMutex
<1>3. ASSUME NEW d \in UsbDevice, Pull(d) PROVE BInv'
  BY <1>3, PullStep
<1>4. QED
  BY <1>1, <1>2, <1>3 DEF UsbNext

\* The invariant holds of every state of the backend (usb_backend.rs).
THEOREM UsbInvariance == UsbSpec => []BInv
  BY InitBInv, NextBInv, PTL DEF UsbSpec

\* The backend's maps, mutexes and bindings are always of their types.
THEOREM UsbTypeCorrect == UsbSpec => []UsbTypeOK
<1>1. BInv => UsbTypeOK
  BY DEF BInv
<1>2. QED
  BY <1>1, UsbInvariance, PTL

\* A handle in the map has every interface, and a kernel driver that release_device
\* did not give back is missing only where a claim is under way or has failed.
THEOREM HostGetsDriversBack == UsbSpec => []DriversKept
<1>1. BInv => DriversKept
  BY Zenon DEF BInv, DriversKept, HandleHoldsAll, HoldInv, HandleInv, UsbTypeOK
<1>2. QED
  BY <1>1, UsbInvariance, PTL

-----------------------------------------------------------------------------
(* The order of the mutexes *)

\* Where a call has the backend's mutex, and where the manager's.
UnderBackend == {"transfer"} \cup Releasing
UnderManager == {"lookup", "remove"} \cup UnderBackend

\* A mutex has the holder that its calls think it has.  MutexesInOrder alone is
\* not inductive: a call that unlocks both must not unlock them for another one.
MutexInv ==
    \A b \in Busid : /\ backend = b <=> upc[b] \in UnderBackend
                     /\ manager = b <=> upc[b] \in UnderManager

\* A call that goes on with the mutexes it has.
LEMMA SameMutexes ==
  ASSUME UsbTypeOK, MutexInv, NEW b \in Busid, NEW label, At(b, label), UNCHANGED locks,
         label \in UnderBackend <=> upc[b] \in UnderBackend,
         label \in UnderManager <=> upc[b] \in UnderManager
  PROVE  MutexInv'
  BY Zenon DEF UsbTypeOK, MutexInv, At, locks

\* A call that gets one of them, or gives up what it has.
LEMMA OtherMutexes ==
  ASSUME UsbTypeOK, MutexInv, NEW b \in Busid, NEW label, At(b, label),
         \/ manager = Free /\ manager' = b /\ backend' = backend /\ label \in {"lookup", "remove"}
            /\ upc[b] \notin UnderBackend
         \/ backend = Free /\ backend' = b /\ manager' = manager /\ label \in UnderBackend
            /\ upc[b] \in UnderManager
         \/ upc[b] \in UnderBackend /\ backend' = Free /\ manager' = Free
            /\ label \notin UnderManager
         \/ upc[b] \in UnderManager \ UnderBackend /\ backend' = backend /\ manager' = Free
            /\ label \notin UnderManager
  PROVE  MutexInv'
<1> USE BackendAssumption DEF UsbTypeOK, MutexInv, At
<1>1. \A c \in Busid : upc'[c] = IF c = b THEN label ELSE upc[c]
  BY Zenon
<1>2. CASE manager = Free /\ manager' = b /\ backend' = backend /\ label \in {"lookup", "remove"}
           /\ upc[b] \notin UnderBackend
  BY <1>1, <1>2, Zenon DEF UnderManager, UnderBackend
<1>3. CASE backend = Free /\ backend' = b /\ manager' = manager /\ label \in UnderBackend
           /\ upc[b] \in UnderManager
  BY <1>1, <1>3, Zenon DEF UnderManager, UnderBackend
<1>4. CASE upc[b] \in UnderBackend /\ backend' = Free /\ manager' = Free
           /\ label \notin UnderManager
  BY <1>1, <1>4, ZenonT(30) DEF UnderManager, UnderBackend
<1>5. CASE upc[b] \in UnderManager \ UnderBackend /\ backend' = backend /\ manager' = Free
           /\ label \notin UnderManager
  BY <1>1, <1>5 DEF UnderManager, UnderBackend
<1>6. QED
  BY <1>2, <1>3, <1>4, <1>5, Zenon

\* Every step of a call is of one of these kinds.
LEMMA NextMutexes ==
  ASSUME UsbTypeOK, MutexInv, [UsbNext]_usbVars PROVE MutexInv'
<1> USE DEF UnderBackend, UnderManager
<1>1. CASE UNCHANGED usbVars
  BY <1>1 DEF usbVars, MutexInv
<1>2. ASSUME NEW d \in UsbDevice, Pull(d) PROVE MutexInv'
  BY <1>2 DEF Pull, locks, MutexInv
<1>3. ASSUME NEW b \in Busid,
             \/ ClaimOpens(b) \/ DetachDriver(b) \/ TakeInterface(b)
             \/ InsertHandle(b) \/ NoteClaim(b) \/ ReleaseInterface(b) \/ AttachDriver(b)
      PROVE  MutexInv'
  <2>1. UNCHANGED locks
    BY <1>3, Zenon DEF ClaimOpens, DetachDriver, TakeInterface, InsertHandle, NoteClaim,
                ReleaseInterface, AttachDriver
  <2>2. CASE ReleaseInterface(b) \/ AttachDriver(b)
    <3>1. upc[b] \in Releasing /\ \E label \in Releasing : At(b, label)
      BY <2>2 DEF ReleaseInterface, AttachDriver, Advance
    <3>2. QED
      BY <2>1, <3>1, SameMutexes, Zenon
  <2>3. CASE \/ ClaimOpens(b) \/ DetachDriver(b) \/ TakeInterface(b)
             \/ InsertHandle(b) \/ NoteClaim(b)
    <3>1. /\ upc[b] \in {"idle", "detach", "take", "insert", "note"}
          /\ \E label \in {"idle", "detach", "take", "insert", "note", "held"} : At(b, label)
      BY <2>3, Zenon DEF ClaimOpens, DetachDriver, TakeInterface, InsertHandle, NoteClaim, Advance
    <3>2. QED
      BY <2>1, <3>1, SameMutexes, SMTT(30)
  <2>4. QED
    BY <1>3, <2>2, <2>3, SMTT(30)
<1>4. ASSUME NEW b \in Busid,
             \/ ExecuteUrb(b) \/ ReleaseDevice(b) \/ LookupHandle(b) \/ RemoveHandle(b)
             \/ TransferEnds(b) \/ ReleaseReturns(b)
      PROVE  MutexInv'
  <2>1. CASE ExecuteUrb(b) \/ ReleaseDevice(b)
    BY <2>1, OtherMutexes, Zenon DEF ExecuteUrb, ReleaseDevice
  <2>2. CASE RemoveHandle(b)
    <3>1. \E label \in Releasing : At(b, label)
      BY <2>2, Zenon DEF RemoveHandle
    <3>2. QED
      BY <2>2, <3>1, OtherMutexes, Zenon DEF RemoveHandle
  <2>3. CASE LookupHandle(b)
    BY <2>3, OtherMutexes, Zenon DEF LookupHandle
  <2>4. CASE TransferEnds(b) \/ ReleaseReturns(b)
    BY <2>4, OtherMutexes DEF TransferEnds, ReleaseReturns
  <2>5. QED
    BY <1>4, <2>1, <2>2, <2>3, <2>4, Zenon
<1>5. QED
  BY <1>1, <1>2, <1>3, <1>4 DEF UsbNext, RunsOn, LocksMutex

\* However many calls run at once, they take the two mutexes of usb_backend.rs in
\* one order: no circle of calls waits for each other.
THEOREM NoCircularWait == UsbSpec => []MutexesInOrder
<1>1. UsbInit => MutexInv
  BY BackendAssumption, Zenon DEF UsbInit, MutexInv, UnderManager, UnderBackend
<1>2. UsbTypeOK /\ MutexInv /\ [UsbNext]_usbVars => MutexInv'
  BY NextMutexes
<1>3. MutexInv => MutexesInOrder
  BY ZenonT(30) DEF MutexInv, MutexesInOrder, UnderManager, UnderBackend
<1>4. QED
  BY <1>1, <1>2, <1>3, UsbTypeCorrect, PTL DEF UsbSpec

-----------------------------------------------------------------------------
(* The backend implements DeviceLease *)

holderBar == [d \in UsbDevice |-> IF bound[d][1] = Kernel THEN Unbound ELSE bound[d][1]]
openBar == {deviceOf[b] : b \in handles}

\* An open device is held by the busid whose handle is in the map.
LEMMA OpenIsHeld ==
  ASSUME BInv, NEW d \in openBar
  PROVE  \E b \in handles : deviceOf[b] = d /\ b \in Busid /\ holderBar[d] = b
<1>1. PICK b \in handles : deviceOf[b] = d
  BY Zenon DEF openBar
<1>2. b \in Busid /\ d \in UsbDevice /\ upc[b] \in Holding
  BY <1>1, SMTT(30) DEF BInv, UsbTypeOK, HandleInv
<1>3. bound[d][1] = b
  BY <1>1, <1>2, BackendAssumption DEF BInv, HoldInv
<1>4. QED
  BY <1>1, <1>2, <1>3, BackendAssumption, SMTT(30) DEF holderBar

\* Where a handle loses the first interface, a lease ends.
LEMMA LosesFirst ==
  ASSUME BInv, NEW b \in Busid, b \notin handles, UNCHANGED <<deviceOf, handles>>,
         \A e \in UsbDevice : bound'[e][1] = IF e = deviceOf[b] /\ bound[e][1] = b
                                             THEN Unbound ELSE bound[e][1]
  PROVE  [Lease!Next]_(Lease!lease)
<1> DEFINE d == deviceOf[b]
<1>0. d \in UsbDevice
  BY Zenon DEF BInv, UsbTypeOK
<1>1. openBar' = openBar
  BY SMTT(30) DEF openBar
<1>2. CASE bound[d][1] = b
  <2>1. holderBar[d] = b /\ d \notin openBar
    <3>1. holderBar[d] = b
      BY <1>0, <1>2, BackendAssumption DEF holderBar
    <3>2. d \in openBar => \E c \in handles : holderBar[d] = c
      BY OpenIsHeld, ZenonT(30)
    <3>3. QED
      BY <3>1, <3>2, ZenonT(30)
  <2>2. holderBar' = [holderBar EXCEPT ![d] = Unbound]
    BY <1>0, <1>2, BackendAssumption, ZenonT(30) DEF holderBar
  <2>3. Lease!End(b, d)
    BY <1>1, <2>1, <2>2, Zenon DEF Lease!End, holderBar, openBar
  <2>4. QED
    BY <1>0, <2>3, Zenon DEF Lease!Next, Lease!End
<1>3. CASE bound[d][1] # b
  <2>1. holderBar' = holderBar
    BY <1>3, Zenon DEF holderBar
  <2>2. QED
    BY <1>1, <2>1, Zenon DEF Lease!lease, holderBar, openBar
<1>4. QED
  BY <1>2, <1>3, Zenon

\* Every step of the backend is a step of the lease, or none.
LEMMA NextLease ==
  ASSUME BInv, [UsbNext]_usbVars
  PROVE  [Lease!Next]_(Lease!lease)
<1> USE DEF BInv
<1>0. 1 \in Iface
  BY BackendAssumption, SMTT(30)
<1>1. CASE UNCHANGED <<deviceOf, handles>> /\ holderBar' = holderBar
  BY <1>1, Zenon DEF Lease!lease, holderBar, openBar
<1>2. ASSUME UNCHANGED <<deviceOf, bound, handles>> PROVE [Lease!Next]_(Lease!lease)
  BY <1>1, <1>2 DEF holderBar
<1>3. ASSUME NEW b \in Busid, DetachDriver(b) PROVE [Lease!Next]_(Lease!lease)
  <2>1. CASE UNCHANGED bound
    BY <1>2, <1>3, <2>1 DEF DetachDriver, fixed, maps
  <2>2. CASE On(b) = Kernel /\ Bind(b, Unbound)
    <3>1. holderBar' = holderBar
      BY <1>0, <2>2, BindBinds, SMTT(30) DEF On, holderBar
    <3>2. QED
      BY <1>1, <1>3, <3>1, Zenon DEF DetachDriver, fixed, maps
  <2>3. QED
    BY <1>3, <2>1, <2>2 DEF DetachDriver
<1>4. ASSUME NEW b \in Busid, TakeInterface(b) PROVE [Lease!Next]_(Lease!lease)
  <2> DEFINE d == deviceOf[b]
  <2>1. /\ d \in UsbDevice /\ at[b] \in Iface /\ UNCHANGED <<deviceOf, handles>>
        /\ b \notin handles /\ upc[b] = "take"
    BY <1>4, ZenonT(30) DEF TakeInterface, UsbTypeOK, HandleInv, fixed, maps
  <2>2. CASE present[d] /\ at[b] \in active[d] /\ On(b) = Unbound
    <3>1. /\ bound[d][at[b]] = Unbound
          /\ \A e \in UsbDevice, i \in Iface :
                bound'[e][i] = IF e = d /\ i = at[b] THEN b ELSE bound[e][i]
      BY <1>4, <2>2, BindBinds DEF TakeInterface, On
    <3>2. CASE at[b] = 1
      <4>1. holderBar[d] = Unbound /\ d \notin openBar
        <5>1. Unbound # Kernel /\ Unbound \notin Busid
          BY BackendAssumption, Zenon
        <5>2. holderBar[d] = Unbound
          BY <2>1, <3>1, <3>2, <5>1, Zenon DEF holderBar
        <5>3. QED
          BY <5>1, <5>2, OpenIsHeld, Zenon
      <4>2. holderBar' = [holderBar EXCEPT ![d] = b]
        <5>1. \A e \in UsbDevice : bound'[e][1] = IF e = d THEN b ELSE bound[e][1]
          BY <2>1, <3>1, <3>2, Zenon
        <5>2. b # Kernel
          BY BackendAssumption
        <5>3. QED
          BY <2>1, <5>1, <5>2, ZenonT(30) DEF holderBar
      <4>3. openBar' = openBar
        BY <2>1 DEF openBar
      <4>4. Lease!Grant(b, d)
        BY <4>1, <4>2, <4>3, ZenonT(30) DEF Lease!Grant, holderBar, openBar
      <4>5. QED
        BY <2>1, <4>4, ZenonT(30) DEF Lease!Next, Lease!Grant
    <3>3. CASE at[b] # 1
      <4>1. holderBar' = holderBar
        <5>1. \A e \in UsbDevice : bound'[e][1] = bound[e][1]
          BY <1>0, <3>1, <3>3, Zenon
        <5>2. QED
          BY <5>1, Zenon DEF holderBar
      <4>2. QED
        BY <1>1, <2>1, <4>1
    <3>4. QED
      BY <3>2, <3>3, Zenon
  <2>3. CASE ~(present[d] /\ at[b] \in active[d] /\ On(b) = Unbound)
    <3>1. bound' = Unclaim(b)
      BY <1>4, <2>3, Zenon DEF TakeInterface
    <3>2. \A e \in UsbDevice : bound'[e][1] = IF e = deviceOf[b] /\ bound[e][1] = b
                                              THEN Unbound ELSE bound[e][1]
      BY <1>0, <3>1, UnclaimUnbinds, SMTT(30)
    <3>3. QED
      BY <2>1, <3>2, LosesFirst, Zenon
  <2>4. QED
    BY <2>2, <2>3, ZenonT(30)
<1>5. ASSUME NEW b \in Busid, InsertHandle(b) PROVE [Lease!Next]_(Lease!lease)
  <2> DEFINE d == deviceOf[b]
  <2>1. d \in UsbDevice /\ bound[d][1] = b
    BY <1>0, <1>5, Zenon DEF InsertHandle, UsbTypeOK, HoldInv
  <2>2. holderBar[d] = b /\ holderBar' = holderBar
    BY <1>5, <2>1, BackendAssumption, SMTT(30) DEF InsertHandle, holderBar
  <2>3. openBar' = openBar \cup {d}
    BY <1>5, Zenon DEF InsertHandle, fixed, openBar
  <2>4. Lease!Open(b, d)
    BY <2>2, <2>3, ZenonT(30) DEF Lease!Open, holderBar, openBar
  <2>5. QED
    BY <2>1, <2>4, ZenonT(30) DEF Lease!Next, Lease!Open
<1>6. ASSUME NEW b \in Busid, RemoveHandle(b) PROVE [Lease!Next]_(Lease!lease)
  <2> DEFINE d == deviceOf[b]
  <2>1. d \in UsbDevice /\ bound[d][1] = b /\ b \in handles
    BY <1>0, <1>6, Zenon DEF RemoveHandle, UsbTypeOK, HoldInv, HandleInv
  <2>2. holderBar[d] = b /\ holderBar' = holderBar
    BY <1>6, <2>1, BackendAssumption, Zenon DEF RemoveHandle, holderBar
  <2>3. \A c \in handles : deviceOf[c] = d => c = b
    BY <1>0, <2>1, SMTT(30) DEF UsbTypeOK, HoldInv, HandleInv
  <2>4. openBar' = openBar \ {d}
    BY <1>6, <2>3 DEF RemoveHandle, fixed, openBar
  <2>5. Lease!Close(b, d)
    BY <2>2, <2>4, ZenonT(30) DEF Lease!Close, holderBar, openBar
  <2>6. QED
    BY <2>1, <2>5, ZenonT(30) DEF Lease!Next, Lease!Close
<1>7. ASSUME NEW b \in Busid, ReleaseInterface(b) PROVE [Lease!Next]_(Lease!lease)
  <2>1. b \notin handles /\ UNCHANGED <<deviceOf, handles>>
    BY <1>7, Zenon DEF ReleaseInterface, HandleInv, fixed, maps
  <2>2. CASE at[b] \in active[deviceOf[b]] /\ On(b) = b
    <3>1. CASE at[b] = 1
      BY <1>0, <1>7, <2>1, <2>2, <3>1, BindBinds, LosesFirst DEF ReleaseInterface, On
    <3>2. CASE at[b] # 1
      <4>1. \A e \in UsbDevice : bound'[e][1] = bound[e][1]
        BY <1>0, <1>7, <2>2, <3>2, BindBinds DEF ReleaseInterface
      <4>2. holderBar' = holderBar
        BY <4>1, Zenon DEF holderBar
      <4>3. QED
        BY <1>1, <2>1, <4>2, Zenon
    <3>3. QED
      BY <3>1, <3>2
  <2>3. CASE ~(at[b] \in active[deviceOf[b]] /\ On(b) = b)
    BY <1>2, <1>7, <2>1, <2>3, Zenon DEF ReleaseInterface
  <2>4. QED
    BY <2>2, <2>3, Zenon
<1>8. ASSUME NEW b \in Busid, AttachDriver(b) PROVE [Lease!Next]_(Lease!lease)
  <2>1. UNCHANGED <<deviceOf, handles>>
    BY <1>8 DEF AttachDriver, fixed, maps
  <2>2. CASE UNCHANGED bound
    BY <1>2, <2>1, <2>2
  <2>3. CASE On(b) = Unbound /\ Bind(b, Kernel)
    <3>1. holderBar' = holderBar
      <4>1. \A e \in UsbDevice :
               \/ bound'[e][1] = bound[e][1]
               \/ bound[e][1] = Unbound /\ bound'[e][1] = Kernel
        BY <1>0, <2>3, BindBinds, SMTT(30) DEF On
      <4>2. \A e \in UsbDevice : (IF bound'[e][1] = Kernel THEN Unbound ELSE bound'[e][1])
                                   = IF bound[e][1] = Kernel THEN Unbound ELSE bound[e][1]
        BY <4>1, Zenon
      <4>3. QED
        BY <4>2, Zenon DEF holderBar
    <3>2. QED
      BY <1>1, <2>1, <3>1, Zenon
  <2>4. QED
    BY <1>8, <2>2, <2>3, Zenon DEF AttachDriver
<1>9. ASSUME NEW b \in Busid, ReleaseReturns(b) PROVE [Lease!Next]_(Lease!lease)
  <2>1. b \notin handles /\ UNCHANGED <<deviceOf, handles>>
    BY <1>9, SMTT(30) DEF ReleaseReturns, HandleInv, fixed, maps
  <2>2. QED
    <3>1. bound' = Unclaim(b)
      BY <1>9 DEF ReleaseReturns
    <3>2. \A e \in UsbDevice : bound'[e][1] = IF e = deviceOf[b] /\ bound[e][1] = b
                                              THEN Unbound ELSE bound[e][1]
      BY <1>0, <3>1, UnclaimUnbinds
    <3>3. QED
      BY <2>1, <3>2, LosesFirst
<1>10. ASSUME NEW b \in Busid,
              \/ ClaimOpens(b) \/ NoteClaim(b) \/ ExecuteUrb(b) \/ LookupHandle(b)
              \/ TransferEnds(b) \/ ReleaseDevice(b)
       PROVE  [Lease!Next]_(Lease!lease)
  BY <1>2, <1>10, Zenon DEF ClaimOpens, NoteClaim, ExecuteUrb, LookupHandle, TransferEnds,
     ReleaseDevice, fixed, maps
<1>11. ASSUME NEW d \in UsbDevice, Pull(d) PROVE [Lease!Next]_(Lease!lease)
  BY <1>2, <1>11 DEF Pull, fixed, maps
<1>12. CASE UNCHANGED usbVars
  BY <1>2, <1>12 DEF usbVars
<1>13. QED
  BY <1>3, <1>4, <1>5, <1>6, <1>7, <1>8, <1>9, <1>10, <1>11, <1>12, Zenon
     DEF UsbNext, RunsOn, LocksMutex

\* LibusbBackend leases devices: of all spellings of a device at most one has a
\* handle in the map, and it is the one to which the interfaces are bound.
THEOREM BackendImplementsLease == UsbSpec => BackendIsLease
<1>1. UsbInit => Lease!Init
  <2> SUFFICES ASSUME UsbInit PROVE Lease!Init
    OBVIOUS
  <2>1. 1 \in Iface
    BY BackendAssumption
  <2>2. \A d \in UsbDevice : bound[d][1] \in {Kernel, Unbound}
    BY <2>1 DEF UsbInit
  <2>3. handles = {}
    BY DEF UsbInit
  <2>4. QED
    BY <2>2, <2>3 DEF Lease!Init
<1>2. BInv /\ [UsbNext]_usbVars => [Lease!Next]_(Lease!lease)
  BY NextLease
<1>3. QED
  BY <1>1, <1>2, UsbInvariance, PTL DEF UsbSpec, BackendIsLease, Lease!Spec

=============================================================================
