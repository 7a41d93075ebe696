--------------------------- MODULE ShareResources ---------------------------
(***************************************************************************)
(* What a session of the Android app holds besides the device: the wake    *)
(* lock, the wake lock of the URBs, and the mDNS registration of           *)
(* ServerAdvertiser.kt.  AndroidService has the rest of the session; here  *)
(* a session that has been started may end or throw at any time.           *)
(*                                                                         *)
(* A handler of the main thread is one step, but for startServer and       *)
(* startClient, which set the mode first and take the lock later; the      *)
(* catch blocks run on IO threads, and their steps come between those of   *)
(* the main thread.                                                        *)
(* NsdManager answers a request later, on another thread.  PowerManager    *)
(* and NsdManager are external.                                            *)
(***************************************************************************)
EXTENDS Naturals, FiniteSets

CONSTANT MaxSessions   \* bound on calls of startServer and startClient

ASSUME SessionsAssumption == MaxSessions \in Nat

Session == 1..MaxSessions   \* a call's coroutine, and its RegistrationListener

VARIABLES
    serviceMode,   \* currentMode
    started,       \* number of calls so far
    starting,      \* the main thread's place in startServer or startClient
    kpc,           \* a coroutine's place
    awake,         \* wakeLock.isHeld
    stray,         \* it was taken after a catch block had set the mode (history)
    listener,      \* registrationListener, 0 for null
    isRegistered,
    nsd,           \* what has become of a listener's registration
    withdrawn,     \* listeners that unregisterService was called with
    dropped,       \* listeners whose reference was lost before that (history)
    sharing,       \* sessions made by startServer
    urb,           \* sessions with a URB between acquire and release
    holds          \* the count of transferWakeLock, held while it is positive

wakeLock == <<awake, stray>>
power == <<wakeLock, urb, holds>>
launch == <<started, starting, sharing>>
registration == <<listener, isRegistered, nsd, withdrawn, dropped>>
shareVars == <<serviceMode, launch, kpc, power, registration>>

ShareTypeOK ==
    /\ serviceMode \in {"IDLE", "SERVER", "CLIENT", "AWAITING_DEVICE"}
    /\ started \in 0..MaxSessions
    /\ starting \in {"no", "wake", "launch"}
    /\ kpc \in [Session -> {"none", "server", "client", "withdraw", "clear", "idle",
                            "release", "done"}]
    /\ awake \in BOOLEAN /\ stray \in BOOLEAN
    /\ listener \in {0} \cup Session /\ isRegistered \in BOOLEAN
    /\ nsd \in [Session -> {"none", "asked", "up", "gone"}]
    /\ withdrawn \subseteq Session /\ dropped \subseteq Session
    /\ sharing \subseteq Session /\ urb \subseteq sharing /\ holds \in 0..MaxSessions

ShareInit ==
    /\ serviceMode = "IDLE" /\ started = 0 /\ starting = "no"
    /\ kpc = [c \in Session |-> "none"]
    /\ awake = FALSE /\ stray = FALSE
    /\ listener = 0 /\ isRegistered = FALSE
    /\ nsd = [c \in Session |-> "none"]
    /\ withdrawn = {} /\ dropped = {}
    /\ sharing = {} /\ urb = {} /\ holds = 0

KGoto(c, label) == kpc' = [kpc EXCEPT ![c] = label]

(***************************************************************************)
(* ServerAdvertiser                                                        *)
(***************************************************************************)
\* register: a listener that waits for its callback does not count, and is
\* overwritten.
Register(c) ==
    IF isRegistered THEN UNCHANGED registration
    ELSE /\ listener' = c
         /\ dropped' = dropped \cup ({listener} \ {0})
         /\ nsd' = [nsd EXCEPT ![c] = "asked"]
         /\ UNCHANGED <<isRegistered, withdrawn>>

\* Mutant: unregister leaves alone what is not yet registered.
MutUnregisterService ==
    /\ withdrawn' = withdrawn \cup (IF isRegistered THEN {listener} \ {0} ELSE {})
    /\ listener' = 0
    /\ isRegistered' = FALSE
    /\ UNCHANGED <<nsd, dropped>>

\* unregister, on the main thread.
UnregisterService ==
    /\ withdrawn' = withdrawn \cup ({listener} \ {0})
    /\ listener' = 0
    /\ isRegistered' = IF listener = 0 THEN isRegistered ELSE FALSE
    /\ UNCHANGED <<nsd, dropped>>

\* The callbacks, of whichever listener.
OnServiceRegistered(c) ==
    /\ nsd[c] = "asked"
    /\ nsd' = [nsd EXCEPT ![c] = "up"]
    /\ isRegistered' = TRUE
    /\ UNCHANGED <<serviceMode, launch, kpc, power, listener, withdrawn, dropped>>

OnRegistrationFailed(c) ==
    /\ nsd[c] = "asked"
    /\ nsd' = [nsd EXCEPT ![c] = "gone"]
    /\ isRegistered' = FALSE
    /\ UNCHANGED <<serviceMode, launch, kpc, power, listener, withdrawn, dropped>>

OnServiceUnregistered(c) ==
    /\ nsd[c] = "up" /\ c \in withdrawn
    /\ nsd' = [nsd EXCEPT ![c] = "gone"]
    /\ isRegistered' = FALSE
    /\ UNCHANGED <<serviceMode, launch, kpc, power, listener, withdrawn, dropped>>

(***************************************************************************)
(* The wake locks                                                          *)
(***************************************************************************)
ReleaseLockIfHeld == awake' = FALSE /\ stray' = FALSE

\* The session's lock goes after an hour.
WakeLockTimesOut ==
    /\ awake
    /\ ReleaseLockIfHeld
    /\ UNCHANGED <<serviceMode, launch, kpc, urb, holds, registration>>

\* A counted WakeLock, released: never below zero, where release throws.
ReleaseCounted == holds' = IF holds > 0 THEN holds - 1 ELSE 0

\* urbLoop, per URB.
UrbBegins(c) ==
    /\ c \in sharing \ urb /\ kpc[c] # "none"
    /\ urb' = urb \cup {c}
    /\ holds' = holds + 1
    /\ UNCHANGED <<serviceMode, launch, kpc, wakeLock, registration>>

\* Mutant: the lock is released only when the reply could be written.
MutUrbEnds(c) ==
    /\ c \in urb
    /\ urb' = urb \ {c}
    /\ ReleaseCounted \/ UNCHANGED holds
    /\ UNCHANGED <<serviceMode, launch, kpc, wakeLock, registration>>

\* finally: also when the transfer or the reply fails.
UrbEnds(c) ==
    /\ c \in urb
    /\ urb' = urb \ {c}
    /\ ReleaseCounted
    /\ UNCHANGED <<serviceMode, launch, kpc, wakeLock, registration>>

(***************************************************************************)
(* AnyPlugService                                                          *)
(***************************************************************************)
\* startServer and startClient: the mode,
ServerMode ==
    /\ starting = "no" /\ started < MaxSessions
    /\ started' = started + 1
    /\ serviceMode' = "SERVER"
    /\ sharing' = sharing \cup {started + 1}
    /\ starting' = "wake"
    /\ UNCHANGED <<kpc, power, registration>>

ClientMode ==
    /\ starting = "no" /\ started < MaxSessions
    /\ started' = started + 1
    /\ serviceMode' = "CLIENT"
    /\ starting' = "wake"
    /\ UNCHANGED <<sharing, kpc, power, registration>>

\* the lock, whatever the mode is by now,
TakeWakeLock ==
    /\ starting = "wake"
    /\ awake' = TRUE
    /\ stray' = (serviceMode \notin {"SERVER", "CLIENT"})
    /\ starting' = "launch"
    /\ UNCHANGED <<serviceMode, started, sharing, kpc, urb, holds, registration>>

\* the registration, and the coroutine.
LaunchSession ==
    /\ starting = "launch"
    /\ starting' = "no"
    /\ \/ /\ started \in sharing
          /\ Register(started)
          /\ KGoto(started, "server")
       \/ /\ started \notin sharing
          /\ KGoto(started, "client")
          /\ UNCHANGED registration
    /\ UNCHANGED <<serviceMode, started, sharing, power>>

\* onDeviceDisconnected
DeviceGone ==
    /\ starting = "no"
    /\ serviceMode \in {"SERVER", "AWAITING_DEVICE"}
    /\ serviceMode' = "AWAITING_DEVICE"
    /\ ReleaseLockIfHeld
    /\ UnregisterService
    /\ UNCHANGED <<launch, kpc, urb, holds>>

\* stop: the transfers' lock is released once more, if it is held.
StopAll ==
    /\ starting = "no"
    /\ serviceMode' = "IDLE"
    /\ ReleaseLockIfHeld
    /\ UnregisterService
    /\ IF holds > 0 THEN ReleaseCounted ELSE UNCHANGED holds
    /\ UNCHANGED <<launch, kpc, urb>>

\* start() of a coroutine returns or throws.
SessionEnds(c) ==
    /\ \/ kpc[c] = "server" /\ (KGoto(c, "withdraw") \/ KGoto(c, "done"))
       \/ kpc[c] = "client" /\ (KGoto(c, "idle") \/ KGoto(c, "done"))
    /\ UNCHANGED <<serviceMode, launch, power, registration>>

\* The catch block: unregister, whose finally may clear a later listener,
CatchUnregisters(c) ==
    /\ kpc[c] = "withdraw"
    /\ withdrawn' = withdrawn \cup ({listener} \ {0})
    /\ KGoto(c, IF listener = 0 THEN "idle" ELSE "clear")
    /\ UNCHANGED <<serviceMode, launch, power, listener, isRegistered, nsd, dropped>>

CatchClears(c) ==
    /\ kpc[c] = "clear"
    /\ dropped' = dropped \cup ({listener} \ ({0} \cup withdrawn))
    /\ listener' = 0 /\ isRegistered' = FALSE
    /\ KGoto(c, "idle")
    /\ UNCHANGED <<serviceMode, launch, power, nsd, withdrawn>>

\* the mode,
CatchIdles(c) ==
    /\ kpc[c] = "idle"
    /\ serviceMode' = "IDLE"
    /\ KGoto(c, "release")
    /\ UNCHANGED <<launch, power, registration>>

\* Mutant: the lock is left to its timeout.
MutCatchReleases(c) ==
    /\ kpc[c] = "release"
    /\ KGoto(c, "done")
    /\ UNCHANGED <<serviceMode, launch, power, registration>>

\* and at last the lock, be it that of a later session.
CatchReleases(c) ==
    /\ kpc[c] = "release"
    /\ ReleaseLockIfHeld
    /\ KGoto(c, "done")
    /\ UNCHANGED <<serviceMode, launch, urb, holds, registration>>

ShareNext ==
    \/ ServerMode \/ ClientMode \/ TakeWakeLock \/ LaunchSession
    \/ DeviceGone \/ StopAll \/ WakeLockTimesOut
    \/ \E c \in Session :
         \/ OnServiceRegistered(c) \/ OnRegistrationFailed(c) \/ OnServiceUnregistered(c)
         \/ UrbBegins(c) \/ UrbEnds(c) \/ SessionEnds(c)
         \/ CatchUnregisters(c) \/ CatchClears(c) \/ CatchIdles(c) \/ CatchReleases(c)

ShareSpec == ShareInit /\ [][ShareNext]_shareVars

-----------------------------------------------------------------------------
(***************************************************************************)
(* Properties                                                              *)
(***************************************************************************)
\* The device may sleep when nothing is shared: the session's lock is held
\* outside a session only until a catch block gets to its end.  The exception is
\* a lock that startServer took after the catch block of an earlier session had
\* set the mode to IDLE; that one stays until the next stop or its timeout.
IdleMaySleep ==
    awake => \/ serviceMode \in {"SERVER", "CLIENT"}
             \/ \E c \in Session : kpc[c] = "release"
             \/ stray

\* The transfers' lock is held only while some URB is under way, stop() or not.
\* It may be released too early: see Paired.
TransferLockIsBrief == holds > 0 => urb # {}

\* A registration that is up, or may still come up, can be reached by the next
\* unregister or has been withdrawn, unless its listener was overwritten or
\* cleared by an overlapping call: ServerAdvertiser has room for one, and what
\* it has dropped stays advertised until the process ends.
NothingStaysAdvertised ==
    \A c \in Session : nsd[c] \in {"asked", "up"} => c \in {listener} \cup withdrawn \cup dropped

\* acquireTransferWakeLock: "pair each acquire with a release".  It does not hold:
\* stop() releases once more than was acquired while a URB is under way.
Paired == holds = Cardinality(urb)

\* At most one registration is up: it does not hold either, see `dropped`.
OneAdvertised == Cardinality({c \in Session : nsd[c] = "up" /\ c \notin withdrawn}) <= 1

\* A session keeps the device awake until the timeout of the lock.  It does not
\* hold: the catch block of an earlier session releases the lock of a later one.
SessionIsAwake ==
    [][awake /\ ~awake' /\ serviceMode' \in {"SERVER", "CLIENT"} => WakeLockTimesOut]_shareVars

\* Outside a session the wake lock is held only until a catch block gets to its
\* end, or if it was taken after a catch block had set the mode; the lock of the
\* transfers is held during transfers only; and a registration can be withdrawn
\* unless an overlapping call dropped its listener.
SessionGivesBack ==
    ShareTypeOK /\ IdleMaySleep /\ TransferLockIsBrief /\ NothingStaysAdvertised

=============================================================================
