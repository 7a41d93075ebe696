--------------------------- MODULE HotplugMonitor ---------------------------
(***************************************************************************)
(* HotplugMonitor (hotplug.rs): a thread polls a source and sends what it  *)
(* gets into a channel, which recv and try_recv empty.  Events go by their *)
(* number.                                                                 *)
(***************************************************************************)
EXTENDS Naturals, Sequences

CONSTANT MaxEvents   \* bound on the events of a source

ASSUME HotplugAssumption == MaxEvents \in Nat

VARIABLES
    emitted,    \* events the platform has handed to the source
    pending,    \* events the source has not returned yet
    shut,       \* the source has been shut down
    hotpc,      \* the thread: polling, sending, ended
    event,      \* the event it is about to send
    channel,
    monitor,    \* the monitor: there, or dropped and its receiver with it
    received

hotplugVars == <<emitted, pending, shut, hotpc, event, channel, monitor, received>>

HotplugTypeOK ==
    /\ emitted \in 0..MaxEvents /\ event \in 0..MaxEvents
    /\ pending \in Seq(1..MaxEvents) /\ channel \in Seq(1..MaxEvents)
    /\ received \in Seq(1..MaxEvents)
    /\ shut \in BOOLEAN /\ monitor \in BOOLEAN
    /\ hotpc \in {"poll", "send", "ended"}

HotplugInit ==
    /\ emitted = 0 /\ pending = <<>> /\ shut = FALSE
    /\ hotpc = "poll" /\ event = 0
    /\ channel = <<>> /\ monitor = TRUE /\ received = <<>>

\* A device comes or goes.
DeviceEvent ==
    /\ ~shut /\ emitted < MaxEvents
    /\ emitted' = emitted + 1
    /\ pending' = Append(pending, emitted + 1)
    /\ UNCHANGED <<shut, hotpc, event, channel, monitor, received>>

ShutSource ==
    /\ ~shut
    /\ shut' = TRUE
    /\ UNCHANGED <<emitted, pending, hotpc, event, channel, monitor, received>>

\* poll: an event, or None, after which the thread sleeps and polls again.
PollSource ==
    /\ hotpc = "poll" /\ pending # <<>>
    /\ event' = Head(pending) /\ pending' = Tail(pending)
    /\ hotpc' = "send"
    /\ UNCHANGED <<emitted, shut, channel, monitor, received>>

\* Mutant: a failed send is taken for a full channel, and the event is dropped.
MutSendEvent ==
    /\ hotpc = "send"
    /\ hotpc' = "poll" /\ event' = 0
    /\ channel' \in {channel, Append(channel, event)}
    /\ UNCHANGED <<emitted, pending, shut, monitor, received>>

\* tx.send, which fails when the receiver is gone: the thread's only way out.
SendEvent ==
    /\ hotpc = "send"
    /\ event' = 0
    /\ IF monitor
       THEN hotpc' = "poll" /\ channel' = Append(channel, event)
       ELSE hotpc' = "ended" /\ UNCHANGED channel
    /\ UNCHANGED <<emitted, pending, shut, monitor, received>>

\* recv and try_recv, when there is something.
RecvEvent ==
    /\ monitor /\ channel # <<>>
    /\ received' = Append(received, Head(channel))
    /\ channel' = Tail(channel)
    /\ UNCHANGED <<emitted, pending, shut, hotpc, event, monitor>>

DropMonitor ==
    /\ monitor
    /\ monitor' = FALSE /\ channel' = <<>>
    /\ UNCHANGED <<emitted, pending, shut, hotpc, event, received>>

HotplugNext ==
    \/ DeviceEvent \/ ShutSource \/ PollSource \/ SendEvent \/ RecvEvent \/ DropMonitor

HotplugSpec == HotplugInit /\ [][HotplugNext]_hotplugVars

-----------------------------------------------------------------------------
\* While the monitor is there, no event is lost, doubled or overtaken between
\* the source and the caller of recv.
EventsInOrder ==
    monitor => received \o channel \o (IF event = 0 THEN <<>> ELSE <<event>>) \o pending
                 = [i \in 1..emitted |-> i]

\* HotplugMonitor::new: "The thread exits when the source returns `None`".
ThreadExits == (shut /\ pending = <<>> /\ hotpc = "poll") ~> (hotpc = "ended")

=============================================================================
