------------------------------ MODULE MCDaemon ------------------------------
(***************************************************************************)
(* Two clients whose tasks are cancelled at any point: the daemon of the   *)
(* desktop client, and the discovery of servers in the Android app.  They  *)
(* share no state, so a behaviour moves one of them, chosen at the start.  *)
(***************************************************************************)
EXTENDS Daemon, ServerDiscovery

VARIABLE part   \* the part that moves

mcVars == <<part, vars, discoveryVars>>

\* The servers export their devices under the same busid.
SameBusid == [t \in Target |-> "1-1"]

MCInit ==
    /\ part \in {"daemon", "discovery"}
    /\ Init /\ DiscoveryInit
    \* What the daemon starts from is fixed when it does not move.
    /\ part # "daemon" => configured

InDaemon(A) == part = "daemon" /\ A /\ UNCHANGED <<part, discoveryVars>>

MCNext ==
    \/ InDaemon(Next)
    \/ part = "discovery" /\ DiscoveryNext /\ UNCHANGED <<part, vars>>

\* The fairness of the daemon (FairSpec): ready tasks are polled and sleeps end.
MCSpec ==
    /\ MCInit /\ [][MCNext]_mcVars
    /\ WF_mcVars(InDaemon(Run)) /\ WF_mcVars(InDaemon(Exit))
    /\ \A i \in Task : WF_mcVars(InDaemon(daemon = "running" /\ LoopMoves(i)))

=============================================================================
