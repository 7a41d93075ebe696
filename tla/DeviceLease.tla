----------------------------- MODULE DeviceLease -----------------------------
(***************************************************************************)
(* What the server's export bookkeeping promises, without tasks, locks or  *)
(* messages: each device is leased to at most one client at a time, only   *)
(* the leaseholder opens the device, and a lease ends with the device      *)
(* closed.  A lease may also be lost: its holder is gone, the device stays *)
(* leased (and open, if it was), and nobody can lease it again.            *)
(***************************************************************************)
CONSTANTS Client, Device, None, Gone

VARIABLES holder,   \* the leaseholder of each device
          open      \* the devices held open

lease == <<holder, open>>

Init ==
    /\ holder = [d \in Device |-> None]
    /\ open = {}

Grant(c, d) ==
    /\ holder[d] = None
    /\ d \notin open
    /\ holder' = [holder EXCEPT ![d] = c]
    /\ UNCHANGED open

Open(c, d) ==
    /\ holder[d] = c
    /\ open' = open \cup {d}
    /\ UNCHANGED holder

Close(c, d) ==
    /\ holder[d] = c
    /\ open' = open \ {d}
    /\ UNCHANGED holder

End(c, d) ==
    /\ holder[d] = c
    /\ d \notin open
    /\ holder' = [holder EXCEPT ![d] = None]
    /\ UNCHANGED open

Lose(c, d) ==
    /\ holder[d] = c
    /\ holder' = [holder EXCEPT ![d] = Gone]
    /\ UNCHANGED open

Next ==
    \E c \in Client, d \in Device :
        Grant(c, d) \/ Open(c, d) \/ Close(c, d) \/ End(c, d) \/ Lose(c, d)

Spec == Init /\ [][Next]_lease

=============================================================================
