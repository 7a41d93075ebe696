--------------------------- MODULE ProgramsProofs ---------------------------
(***************************************************************************)
(* Proofs about the programs around the server, for any number of clients, *)
(* clicks, sockets, samples, requests, services and events: an invariant   *)
(* of each program, and the theorems about all of them at the end.         *)
(***************************************************************************)
EXTENDS Programs, SequenceTheorems, TLAPS

(***************************************************************************)
(* Queues                                                                  *)
(***************************************************************************)
\* Appending to a concatenation appends to its last part.
LEMMA AppendConcat ==
  ASSUME NEW S, NEW s \in Seq(S), NEW t \in Seq(S), NEW x \in S
  PROVE  s \o Append(t, x) = Append(s \o t, x)
  OBVIOUS

\* An element moved from the head of a queue to the end of the one before it.
LEMMA MoveHead ==
  ASSUME NEW S, NEW s \in Seq(S), NEW t \in Seq(S), t # <<>>
  PROVE  /\ Head(t) \in S /\ Tail(t) \in Seq(S)
         /\ Append(s, Head(t)) \o Tail(t) = s \o t
  OBVIOUS

\* The numbers from 1 in order, and the next of them.
LEMMA CountingSeq ==
  ASSUME NEW n \in Nat
  PROVE  /\ [i \in 1..n |-> i] \in Seq(1..n)
         /\ Append([i \in 1..n |-> i], n + 1) = [i \in 1..(n + 1) |-> i]
  OBVIOUS

(***************************************************************************)
(* WindowsApp.  The controller holds the sender of one thread, and gives   *)
(* it up only together with the signal.                                    *)
(***************************************************************************)
\* running and shutdown_tx change together.
SenderIsRunning == running <=> tx # 0

\* Threads are numbered as they are spawned.
Unspawned == \A t \in Thread : t > starts => thread[t] = "none"

\* The inductive invariant.
WInv == WindowsTypeOK /\ SenderIsRunning /\ Unspawned /\ ThreadsCanBeStopped

USE WindowsAssumption DEF Thread, Nobody, Service

\* Nothing runs at the start.
LEMMA InitWInv == WindowsInit => WInv
<1> SUFFICES ASSUME WindowsInit PROVE WInv
  OBVIOUS
<1>1. WindowsTypeOK
  <2>1. running \in BOOLEAN
    BY Zenon DEF WindowsInit
  <2>2. /\ thread \in [Thread -> {"none", "new", "select", "bound", "recv", "ended"}]
        /\ peer \in [Peer -> {"away", "queued", "served"}]
    BY DEF WindowsInit
  <2>3. QED
    BY <2>1, <2>2 DEF WindowsInit, WindowsTypeOK
<1>2. SenderIsRunning
  BY DEF WindowsInit, SenderIsRunning
<1>3. Unspawned /\ ThreadsCanBeStopped
  BY DEF WindowsInit, Unspawned, ThreadsCanBeStopped
<1>4. QED
  BY <1>1, <1>2, <1>3 DEF WInv

\* A click on Start Server.
LEMMA StartStep == ASSUME WInv, Start PROVE WInv'
<1> USE DEF Start, WInv
<1>1. starts + 1 \in Thread /\ tx = 0
  BY DEF WindowsTypeOK, SenderIsRunning
<1>2. WindowsTypeOK'
  BY <1>1 DEF WindowsTypeOK
<1>3. SenderIsRunning' /\ Unspawned'
  BY <1>1 DEF WindowsTypeOK, SenderIsRunning, Unspawned
<1>4. ThreadsCanBeStopped'
  BY <1>1 DEF WindowsTypeOK, ThreadsCanBeStopped
<1>5. QED
  BY <1>2, <1>3, <1>4

\* A click on Stop Server.
LEMMA StopStep == ASSUME WInv, Stop PROVE WInv'
<1> USE DEF Stop, WInv
<1>1. WindowsTypeOK'
  BY Zenon DEF WindowsTypeOK, SenderIsRunning
<1>2. SenderIsRunning' /\ Unspawned' /\ ThreadsCanBeStopped'
  BY Zenon DEF SenderIsRunning, Unspawned, ThreadsCanBeStopped
<1>3. QED
  BY <1>1, <1>2

\* A step of a thread.
LEMMA ThreadSteps == ASSUME WInv, NEW t \in Thread, ThreadStep(t) PROVE WInv'
<1> USE DEF WInv, ThreadStep, NewServer, PollRun, BindFails, PollWait, RecvSignal, AcceptAtOnce
<1>1. /\ UNCHANGED <<running, tx, starts, signal, service, svcThread>>
      /\ \/ UNCHANGED thread
         \/ /\ thread[t] \notin {"none", "ended"}
            /\ \E s \in {"select", "bound", "recv", "ended"} :
                  thread' = [thread EXCEPT ![t] = s]
  BY Zenon DEF Close
<1>2. port' \in Thread \cup {Nobody, Service}
  BY Zenon DEF Close, WindowsTypeOK
<1>3. peer' \in [Peer -> {"away", "queued", "served"}]
  BY Zenon DEF Close, WindowsTypeOK
<1>4. thread' \in [Thread -> {"none", "new", "select", "bound", "recv", "ended"}]
  BY <1>1, SMTT(30) DEF WindowsTypeOK
<1>5. WindowsTypeOK'
  BY <1>1, <1>2, <1>3, <1>4, SMTT(30) DEF WindowsTypeOK
<1>6. SenderIsRunning' /\ Unspawned' /\ ThreadsCanBeStopped'
  BY <1>1, ZenonT(30) DEF WindowsTypeOK, SenderIsRunning, Unspawned, ThreadsCanBeStopped
<1>7. QED
  BY <1>5, <1>6, Zenon

\* A step of the service, or of a client.
LEMMA OtherSteps ==
  ASSUME WInv,
         \/ ServiceStarts \/ ServiceRuns \/ ServiceStops
         \/ \E c \in Peer : ServiceAccepts(c) \/ PeerConnects(c) \/ PeerLeaves(c)
  PROVE  WInv'
<1> USE DEF WInv, ServiceStarts, ServiceRuns, ServiceStops, ServiceAccepts, PeerConnects,
            PeerLeaves, Close
<1>1. UNCHANGED <<running, tx, starts, signal, thread>>
  BY Zenon
<1>2. WindowsTypeOK'
  BY <1>1, ZenonT(30) DEF WindowsTypeOK
<1>3. SenderIsRunning' /\ Unspawned' /\ ThreadsCanBeStopped'
  BY <1>1 DEF SenderIsRunning, Unspawned, ThreadsCanBeStopped
<1>4. QED
  BY <1>2, <1>3, Zenon

\* Every step keeps the invariant.
LEMMA NextWInv == WInv /\ [WindowsNext]_windowsVars => WInv'
<1> SUFFICES ASSUME WInv, [WindowsNext]_windowsVars PROVE WInv'
  OBVIOUS
<1>1. CASE UNCHANGED windowsVars
  BY <1>1 DEF windowsVars, WInv, WindowsTypeOK, SenderIsRunning, Unspawned, ThreadsCanBeStopped
<1>2. CASE WindowsNext
  BY <1>2, StartStep, StopStep, ThreadSteps, OtherSteps DEF WindowsNext
<1>3. QED
  BY <1>1, <1>2

\* The invariant holds of every state of the GUI, its threads and the service.
THEOREM WindowsInvariance == WindowsSpec => []WInv
  BY InitWInv, NextWInv, PTL DEF WindowsSpec

HIDE WindowsAssumption DEF Thread, Nobody, Service

(***************************************************************************)
(* EventStream.  What is shown is older than what is on its way, and that  *)
(* is older than what the socket's task will take from the channel.        *)
(***************************************************************************)
\* The page has one socket, and none while its timer runs.
OneSocket == \A s \in Slot : ready[s] # "CLOSED" => s = ws /\ mounted /\ ~timer

\* Samples in the order they were measured.
Increasing(q) == \A i, j \in 1..Len(q) : i < j => q[i] < q[j]

\* A receiver is at most at the sample that comes next.
Receivers == \A s \in Slot : next[s] <= count + 1

\* What is on its way to an open socket is in order, newer than what is shown and
\* older than what its receiver takes next; a socket is opened empty.
Waiting(s) ==
    /\ Increasing(wire[s])
    /\ \A i \in 1..Len(wire[s]) : wire[s][i] < next[s]
    /\ \A j \in 1..Len(samples) : samples[j] < next[s]
    /\ \A i \in 1..Len(wire[s]), j \in 1..Len(samples) : samples[j] < wire[s][i]

\* So it is on every open socket.
WireInv ==
    \A s \in Slot : /\ ready[s] = "CONNECTING" => wire[s] = <<>>
                    /\ ready[s] = "OPEN" => Waiting(s)

\* Nothing is shown that was not measured.
Measured == \A j \in 1..Len(samples) : samples[j] <= count

\* The inductive invariant.
EInv == EventTypeOK /\ OneSocket /\ Receivers /\ WireInv /\ Measured /\ SamplesInOrder

USE EventAssumption

\* The invariant of the event stream holds where a console starts.
LEMMA InitEInv == EventInit => EInv
<1> SUFFICES ASSUME EventInit PROVE EInv
  OBVIOUS
<1>1. EventTypeOK
  <2>1. serving \in BOOLEAN /\ mounted \in BOOLEAN /\ timer \in BOOLEAN
        /\ task \in [Slot -> BOOLEAN]
    BY Zenon DEF EventInit
  <2>2. QED
    BY <2>1 DEF EventInit, EventTypeOK
<1>2. QED
  BY <1>1 DEF EventInit, EInv, OneSocket, Receivers, WireInv, Measured, SamplesInOrder

\* The page connects.
LEMMA ConnectStep == ASSUME EInv, NEW s \in Slot, ConnectEvents(s) PROVE EInv'
<1> USE DEF ConnectEvents, EInv
<1>1. EventTypeOK'
  <2>1. <<>> \in Seq(1..MaxSamples)
    BY EmptySeq
  <2>2. timer' \in BOOLEAN
    BY Zenon
  <2>3. QED
    BY <2>1, <2>2 DEF EventTypeOK
<1>2. OneSocket' /\ Receivers' /\ Measured' /\ SamplesInOrder'
  BY DEF EventTypeOK, OneSocket, Receivers, Measured, SamplesInOrder
<1>3. WireInv'
  BY DEF EventTypeOK, OneSocket, WireInv, Waiting, Increasing
<1>4. QED
  BY <1>1, <1>2, <1>3

\* The dashboard's window is the end of its sequence.
LEMMA RecentFacts ==
  ASSUME NEW T, NEW q \in Seq(T), NEW n \in Nat
  PROVE  /\ Recent(q, n) \in Seq(T)
         /\ Len(Recent(q, n)) <= Len(q)
         /\ \E k \in Nat : /\ Len(q) = Len(Recent(q, n)) + k
                           /\ \A i \in 1..Len(Recent(q, n)) : Recent(q, n)[i] = q[i + k]
<1> DEFINE k == IF Len(q) > n THEN Len(q) - n ELSE 0
<1>1. k \in Nat /\ k <= Len(q) /\ Len(q) \in Nat
  OBVIOUS
<1>2. Recent(q, n) = SubSeq(q, k + 1, Len(q))
  BY DEF Recent
<1> HIDE DEF k
<1>3. \A i \in (k + 1)..Len(q) : q[i] \in T
  BY <1>1, ElementOfSeq
<1>4. /\ Recent(q, n) \in Seq(T) /\ Len(Recent(q, n)) = Len(q) - k
      /\ \A i \in 1..(Len(q) - k) : Recent(q, n)[i] = q[i + k]
  BY <1>1, <1>2, <1>3, SubSeqProperties
<1>5. QED
  BY <1>1, <1>4, SMTT(30)

\* Appending what is larger, and dropping the head, keep a sequence increasing.
LEMMA AppendIncreasing ==
  ASSUME NEW q \in Seq(Nat), NEW x \in Nat, Increasing(q),
         \A i \in 1..Len(q) : q[i] < x
  PROVE  /\ Increasing(Append(q, x))
         /\ \A i \in 1..Len(Append(q, x)) : Append(q, x)[i] <= x
<1>1. /\ Len(q) \in Nat /\ Len(Append(q, x)) = Len(q) + 1
      /\ Append(q, x)[Len(q) + 1] = x
      /\ \A i \in 1..Len(q) : Append(q, x)[i] = q[i] /\ q[i] \in Nat
  BY AppendProperties, LenProperties, ElementOfSeq
<1>2. \A i \in 1..(Len(q) + 1) : i \in 1..Len(q) \/ i = Len(q) + 1
  BY <1>1
<1>3. \A i \in 1..(Len(q) + 1) : Append(q, x)[i] <= x
  BY <1>1, <1>2
<1>4. ASSUME NEW i \in 1..(Len(q) + 1), NEW j \in 1..(Len(q) + 1), i < j
      PROVE  Append(q, x)[i] < Append(q, x)[j]
  <2>1. i \in 1..Len(q)
    BY <1>1, <1>4
  <2>2. CASE j \in 1..Len(q)
    BY <1>1, <1>4, <2>1, <2>2, Zenon DEF Increasing
  <2>3. CASE j = Len(q) + 1
    BY <1>1, <2>1, <2>3, Zenon
  <2>4. QED
    BY <1>2, <2>2, <2>3
<1>5. QED
  BY <1>1, <1>3, <1>4, Zenon DEF Increasing

\* What follows the first of increasing samples increases, and is later than the first.
LEMMA TailIncreasing ==
  ASSUME NEW q \in Seq(Nat), q # <<>>, Increasing(q)
  PROVE  /\ Increasing(Tail(q)) /\ Len(Tail(q)) = Len(q) - 1 /\ Len(q) \in Nat
         /\ \A i \in 1..Len(Tail(q)) : /\ i + 1 \in 1..Len(q)
                                        /\ Tail(q)[i] = q[i + 1]
                                        /\ Head(q) < Tail(q)[i]
<1>1. /\ Len(q) \in Nat /\ Len(q) > 0 /\ Head(q) = q[1] /\ Len(Tail(q)) = Len(q) - 1
      /\ \A i \in 1..Len(Tail(q)) : Tail(q)[i] = q[i + 1]
  BY EmptySeq, LenProperties, HeadTailProperties
<1>2. \A i \in 1..Len(Tail(q)) : i + 1 \in 1..Len(q) /\ 1 \in 1..Len(q) /\ 1 < i + 1
  BY <1>1
<1>3. \A i, j \in 1..Len(Tail(q)) : i < j => i + 1 < j + 1
  BY <1>1
<1>4. QED
  BY <1>1, <1>2, <1>3 DEF Increasing

\* A message reaches the page.
LEMMA MessageStep == ASSUME EInv, NEW s \in Slot, OnMessage(s) PROVE EInv'
<1> USE DEF OnMessage, EInv
<1> DEFINE x == Head(wire[s])
           longer == Append(samples, x)
<1>1. /\ wire[s] \in Seq(1..MaxSamples) /\ wire[s] # <<>> /\ x = wire[s][1]
      /\ x \in 1..MaxSamples /\ ready[s] = "OPEN" /\ Waiting(s) /\ s = ws /\ mounted
  BY DEF EventTypeOK, WireInv, OneSocket
<1>2. samples' = Recent(longer, Window)
  BY <1>1, Zenon
<1>3. /\ longer \in Seq(1..MaxSamples) /\ Len(longer) = Len(samples) + 1
      /\ \A i \in 1..Len(samples) : longer[i] = samples[i]
      /\ longer[Len(samples) + 1] = x
  BY <1>1 DEF EventTypeOK
<1>4. x \in Nat /\ x < next[s] /\ x <= count
  <2>1. /\ 1 \in 1..Len(wire[s]) /\ x \in Nat
        /\ next[s] \in Nat /\ next[s] <= count + 1 /\ count \in Nat
    BY <1>1, EmptySeq DEF Receivers, EventTypeOK
  <2>2. wire[s][1] < next[s]
    BY <1>1, <2>1, Zenon DEF Waiting
  <2>3. wire[s][1] = x
    BY <1>1
  <2> HIDE DEF OnMessage, EInv, x
  <2>4. QED
    BY <2>1, <2>2, <2>3
<1>5. Increasing(longer) /\ \A i \in 1..Len(longer) : longer[i] <= x
  <2>1. samples \in Seq(Nat) /\ Increasing(samples)
    <3>1. samples \in Seq(1..MaxSamples) /\ 1..MaxSamples \subseteq Nat
      BY DEF EventTypeOK
    <3>2. QED
      BY <3>1, SeqMonotonic, Zenon DEF SamplesInOrder, Increasing
  <2>2. 1 \in 1..Len(wire[s]) /\ x \in Nat
    BY <1>1, EmptySeq, SMTT(30)
  <2>3. \A i \in 1..Len(samples) : samples[i] < x
    BY <1>1, <2>2 DEF Waiting
  <2>4. QED
    BY <2>1, <2>2, <2>3, AppendIncreasing, Zenon
<1> HIDE DEF longer, x
<1>6. PICK k \in Nat : /\ samples' \in Seq(1..MaxSamples) /\ Len(longer) = Len(samples') + k
                       /\ \A i \in 1..Len(samples') : samples'[i] = longer[i + k]
  <2> DEFINE T == 1..MaxSamples
  <2>1. longer \in Seq(T) /\ Window \in Nat
    BY <1>3
  <2> HIDE DEF T, OnMessage
  <2>2. PICK k \in Nat : /\ Recent(longer, Window) \in Seq(T)
                         /\ Len(longer) = Len(Recent(longer, Window)) + k
                         /\ \A i \in 1..Len(Recent(longer, Window)) :
                               Recent(longer, Window)[i] = longer[i + k]
    BY <2>1, RecentFacts, ZenonT(30)
  <2>3. QED
    BY <1>2, <2>2 DEF T
<1>7. \A i \in 1..Len(samples') : /\ i + k \in 1..Len(longer) /\ samples'[i] <= x
                                  /\ samples'[i] \in 1..MaxSamples
  <2> HIDE DEF OnMessage, EInv
  <2>1. Len(samples') \in Nat /\ \A i \in 1..Len(samples') : samples'[i] \in 1..MaxSamples
    BY <1>6, ElementOfSeq
  <2>2. \A i \in 1..Len(samples') : i + k \in 1..Len(longer)
    BY <1>6, <2>1
  <2>3. QED
    BY <1>5, <1>6, <2>1, <2>2, Zenon
<1>8. SamplesInOrder'
  <2> HIDE DEF OnMessage, EInv
  <2>1. QED
    BY <1>3, <1>5, <1>6, <1>7 DEF SamplesInOrder, Increasing
<1>9. Measured'
  <2>1. x \in Nat /\ count \in Nat /\ count' = count
    BY <1>1 DEF EventTypeOK
  <2> HIDE DEF OnMessage
  <2>2. \A i \in 1..Len(samples') : samples'[i] \in Nat /\ samples'[i] <= count
    BY <1>4, <1>7, <2>1, SMTT(30)
  <2>3. QED
    BY <2>1, <2>2 DEF Measured
<1>10. EventTypeOK'
  <2>1. Tail(wire[s]) \in Seq(1..MaxSamples)
    BY <1>1, HeadTailProperties, Zenon
  <2>2. wire' \in [Slot -> Seq(1..MaxSamples)]
    BY <2>1, ZenonT(30) DEF EventTypeOK
  <2>3. QED
    BY <1>6, <2>2, Zenon DEF EventTypeOK, page
<1>11. OneSocket' /\ Receivers'
  BY Zenon DEF OneSocket, Receivers, page
<1>12. WireInv'
  <2> SUFFICES ASSUME NEW t \in Slot
               PROVE  /\ (ready[t] = "CONNECTING" => wire[t] = <<>>)'
                      /\ (ready[t] = "OPEN" => Waiting(t))'
    BY DEF WireInv
  <2>1. CASE t # s
    BY <1>1, <2>1, Zenon DEF OneSocket, page
  <2>2. CASE t = s
    <3>1. /\ wire'[s] = Tail(wire[s]) /\ wire[s] \in Seq(Nat)
          /\ \A i \in 1..Len(wire[s]) : wire[s][i] \in Nat
      <4>1. wire'[s] = Tail(wire[s])
        BY Zenon DEF EventTypeOK
      <4>2. wire[s] \in Seq(1..MaxSamples)
        BY <1>1, Zenon
      <4> HIDE DEF OnMessage, EInv
      <4>3. QED
        BY <4>1, <4>2
    <3>2. /\ Increasing(wire'[s])
          /\ \A i \in 1..Len(wire'[s]) : /\ i + 1 \in 1..Len(wire[s]) /\ x < wire'[s][i]
                                          /\ wire'[s][i] = wire[s][i + 1]
                                          /\ wire'[s][i] \in Nat
      <4> HIDE DEF OnMessage
      <4>1. Increasing(wire[s])
        BY <1>1, SMTT(30) DEF Waiting
      <4>2. /\ Increasing(Tail(wire[s]))
            /\ \A i \in 1..Len(Tail(wire[s])) : /\ i + 1 \in 1..Len(wire[s])
                                                /\ Tail(wire[s])[i] = wire[s][i + 1]
                                                /\ Head(wire[s]) < Tail(wire[s])[i]
        BY <1>1, <3>1, <4>1, TailIncreasing, ZenonT(30)
      <4>3. QED
        BY <3>1, <4>2, Zenon DEF x
    <3>3. Waiting(s)'
      <4>1. Increasing(wire[s])'
        BY <3>2, Zenon DEF Increasing
      <4>2. \A i \in 1..Len(wire'[s]) : wire'[s][i] < next'[s]
        BY <1>1, <3>1, <3>2, ZenonT(30) DEF Waiting, page
      <4>3. \A j \in 1..Len(samples') : samples'[j] < next'[s]
        <5>1. x \in Nat /\ next[s] \in Nat /\ next'[s] = next[s]
          <6>1. next[s] \in Nat /\ next'[s] = next[s]
            BY DEF EventTypeOK
          <6>2. QED
            BY <1>1, <6>1
        <5> HIDE DEF OnMessage, EInv
        <5>2. QED
          BY <1>4, <1>7, <5>1
      <4>4. \A i \in 1..Len(wire'[s]), j \in 1..Len(samples') : samples'[j] < wire'[s][i]
        <5> HIDE DEF OnMessage, EInv
        <5>1. x \in Nat /\ \A j \in 1..Len(samples') : samples'[j] \in Nat
          BY <1>4, <1>7
        <5>2. QED
          <6> SUFFICES ASSUME NEW i \in 1..Len(wire'[s]), NEW j \in 1..Len(samples')
                       PROVE  samples'[j] < wire'[s][i]
            BY SMTT(30)
          <6>1. samples'[j] <= x /\ samples'[j] \in Nat /\ x < wire'[s][i]
                /\ wire'[s][i] \in Nat /\ x \in Nat
            BY <1>7, <3>2, <5>1, ZenonT(30)
          <6>2. QED
            BY <6>1
      <4>5. QED
        BY <4>1, <4>2, <4>3, <4>4, Zenon DEF Waiting
    <3>4. QED
      BY <1>1, <2>2, <3>3, Zenon DEF page
  <2>3. QED
    BY <2>1, <2>2, Zenon
<1>13. QED
  BY <1>8, <1>9, <1>10, <1>11, <1>12, Zenon

\* A socket closes, or the page goes.
LEMMA CloseStep == ASSUME EInv, (\E s \in Slot : OnClose(s)) \/ Unmount PROVE EInv'
<1> USE DEF EInv
<1>1. ASSUME NEW s \in Slot, OnClose(s) PROVE EInv'
  <2> USE <1>1 DEF OnClose
  <2>1. EventTypeOK'
    BY SMTT(30) DEF EventTypeOK
  <2>2. OneSocket' /\ Receivers' /\ Measured' /\ SamplesInOrder'
    BY Zenon DEF EventTypeOK, OneSocket, Receivers, Measured, SamplesInOrder
  <2>3. WireInv'
    BY DEF EventTypeOK, WireInv, Waiting, Increasing
  <2>4. QED
    BY <2>1, <2>2, <2>3, Zenon
<1>2. ASSUME Unmount PROVE EInv'
  <2> USE <1>2 DEF Unmount
  <2>1. EventTypeOK'
    BY ZenonT(30) DEF EventTypeOK
  <2>2. OneSocket' /\ Receivers' /\ Measured' /\ SamplesInOrder'
    BY Zenon DEF EventTypeOK, OneSocket, Receivers, Measured, SamplesInOrder
  <2>3. WireInv'
    BY DEF EventTypeOK, WireInv, Waiting, Increasing
  <2>4. QED
    BY <2>1, <2>2, <2>3, SMTT(30)
<1>3. QED
  BY <1>1, <1>2, Zenon

\* The server accepts a socket.
LEMMA UpgradeStep == ASSUME EInv, NEW s \in Slot, Upgrade(s) PROVE EInv'
<1> USE DEF Upgrade, EInv
<1>1. EventTypeOK'
  BY DEF EventTypeOK
<1>2. OneSocket' /\ Receivers' /\ Measured' /\ SamplesInOrder'
  BY SMTT(30) DEF EventTypeOK, OneSocket, Receivers, Measured, SamplesInOrder
<1>3. WireInv'
  <2>1. Waiting(s)'
    <3>1. wire'[s] = <<>> /\ Len(wire'[s]) = 0 /\ next'[s] = count + 1
      BY EmptySeq DEF WireInv, EventTypeOK
    <3>2. \A j \in 1..Len(samples) : samples[j] \in Nat
      BY ElementOfSeq, SMTT(30) DEF EventTypeOK
    <3>3. samples' = samples /\ count \in Nat /\ \A j \in 1..Len(samples) : samples[j] <= count
      <4>1. count \in Nat /\ samples' = samples
        BY DEF EventTypeOK
      <4>2. QED
        BY <4>1, Zenon DEF Measured
    <3> HIDE DEF Upgrade, EInv
    <3>4. \A j \in 1..Len(samples) : samples[j] < next'[s]
      BY <3>1, <3>2, <3>3
    <3>5. QED
      BY <3>1, <3>3, <3>4 DEF Waiting, Increasing
  <2>2. QED
    <3>1. ASSUME NEW t \in Slot, t # s PROVE ready'[t] = ready[t] /\ next'[t] = next[t]
      BY <3>1, ZenonT(30) DEF EventTypeOK
    <3>2. ready'[s] = "OPEN" /\ wire' = wire /\ samples' = samples
      BY DEF EventTypeOK
    <3> HIDE DEF Upgrade
    <3>3. ASSUME NEW t \in Slot, t # s
          PROVE  /\ (ready[t] = "CONNECTING" => wire[t] = <<>>)'
                 /\ (ready[t] = "OPEN" => Waiting(t))'
      BY <3>1, <3>2, <3>3, ZenonT(30) DEF WireInv, Waiting, Increasing
    <3>4. QED
      BY <2>1, <3>2, <3>3, Zenon DEF WireInv
<1>4. QED
  BY <1>1, <1>2, <1>3, Zenon

\* A task takes a sample, perhaps skipping those it has missed.
LEMMA RecvStep == ASSUME EInv, NEW s \in Slot, Recv(s) PROVE EInv'
<1> USE DEF EInv
<1> DEFINE n == IF next[s] + Capacity <= count THEN count + 1 - Capacity ELSE next[s]
<1>1. /\ n \in 1..MaxSamples /\ next[s] <= n /\ n <= count
      /\ next' = [next EXCEPT ![s] = n + 1]
      /\ wire' = [wire EXCEPT ![s] = IF ready[s] = "OPEN" THEN Append(@, n) ELSE @]
      /\ UNCHANGED <<serving, count, task, page, samples>>
  BY SMTT(30) DEF Recv, EventTypeOK
<1> HIDE DEF n
<1>2. EventTypeOK'
  <2>1. wire[s] \in Seq(1..MaxSamples) /\ Append(wire[s], n) \in Seq(1..MaxSamples)
    BY <1>1 DEF EventTypeOK
  <2>2. wire' \in [Slot -> Seq(1..MaxSamples)]
    <3>1. (IF ready[s] = "OPEN" THEN Append(wire[s], n) ELSE wire[s]) \in Seq(1..MaxSamples)
      BY <2>1, ZenonT(30)
    <3>2. QED
      BY <1>1, <3>1, SMTT(30) DEF EventTypeOK
  <2>4. next' \in [Slot -> 1..(MaxSamples + 1)]
    BY <1>1, SMTT(30) DEF EventTypeOK
  <2>3. QED
    BY <1>1, <2>2, <2>4, ZenonT(30) DEF EventTypeOK, page
<1>3. OneSocket' /\ Receivers' /\ Measured' /\ SamplesInOrder'
  BY <1>1, SMTT(30) DEF EventTypeOK, OneSocket, Receivers, Measured, SamplesInOrder, page
<1>4. WireInv'
  <2> SUFFICES ASSUME NEW t \in Slot
               PROVE  /\ (ready[t] = "CONNECTING" => wire[t] = <<>>)'
                      /\ (ready[t] = "OPEN" => Waiting(t))'
    BY SMTT(30) DEF WireInv
  <2>1. CASE t # s
    <3>1. wire'[t] = wire[t] /\ next'[t] = next[t]
      BY <1>1, <2>1, ZenonT(30) DEF EventTypeOK
    <3>2. samples' = samples /\ ready' = ready
      BY <1>1, Zenon DEF page
    <3>3. QED
      BY <3>1, <3>2, ZenonT(30) DEF WireInv, Waiting, Increasing
  <2>2. CASE t = s /\ ready[s] # "OPEN"
    BY <1>1, <2>2 DEF WireInv, page, EventTypeOK
  <2>3. CASE t = s /\ ready[s] = "OPEN"
    <3>1. /\ wire[s] \in Seq(1..MaxSamples) /\ wire'[s] = Append(wire[s], n)
          /\ Len(wire'[s]) = Len(wire[s]) + 1 /\ wire'[s][Len(wire[s]) + 1] = n
          /\ \A i \in 1..Len(wire[s]) : wire'[s][i] = wire[s][i] /\ wire[s][i] \in 1..MaxSamples
        <4>1. /\ wire[s] \in Seq(1..MaxSamples) /\ n \in 1..MaxSamples
            /\ wire'[s] = Append(wire[s], n)
        BY <1>1, <2>3 DEF EventTypeOK
      <4> HIDE DEF EInv
      <4>2. QED
        BY <4>1
    <3>2. Waiting(s) /\ next'[s] = n + 1 /\ next[s] \in Nat
      BY <1>1, <2>3 DEF WireInv, EventTypeOK
    <3>3. \A j \in 1..Len(samples) : samples[j] \in Nat
      <4>1. samples \in Seq(1..MaxSamples)
        BY SMTT(30) DEF EventTypeOK
      <4>2. QED
        BY <4>1
    <3>4. Waiting(s)'
      <4>1. /\ Increasing(wire'[s])
            /\ \A i \in 1..Len(wire'[s]) : wire'[s][i] <= n /\ wire'[s][i] \in Nat
        <5>1. wire[s] \in Seq(Nat) /\ n \in Nat
          BY <1>1, <3>1
        <5>2. Increasing(wire[s]) /\ \A i \in 1..Len(wire[s]) : wire[s][i] < next[s]
          BY <3>2, Zenon DEF Waiting
        <5>3. \A i \in 1..Len(wire[s]) : wire[s][i] < n
          <6>1. next[s] \in Nat /\ next[s] <= n
            BY <1>1, <3>2, Zenon
          <6>2. \A i \in 1..Len(wire[s]) : wire[s][i] \in Nat
            BY <3>1
          <6> HIDE DEF EInv
          <6>3. QED
            BY <5>1, <5>2, <6>1, <6>2
        <5>4. /\ Increasing(Append(wire[s], n)) /\ Append(wire[s], n) \in Seq(Nat)
              /\ \A i \in 1..Len(Append(wire[s], n)) : Append(wire[s], n)[i] <= n
          BY <5>1, <5>2, <5>3, AppendIncreasing, AppendProperties, Zenon
        <5>5. /\ Increasing(wire'[s]) /\ wire'[s] \in Seq(Nat)
              /\ \A i \in 1..Len(wire'[s]) : wire'[s][i] <= n
          BY <3>1, <5>4, Zenon
        <5>6. QED
          BY <5>5, ElementOfSeq, Zenon
      <4>2. Increasing(wire[s])' /\ \A i \in 1..Len(wire'[s]) : wire'[s][i] < next'[s]
        <5>1. Increasing(wire[s])'
          BY <4>1, Zenon DEF Increasing
        <5>2. n \in Nat /\ next'[s] = n + 1
          BY <1>1, <3>2
        <5> HIDE DEF EInv
        <5>3. QED
          BY <4>1, <5>1, <5>2
      <4>3. \A j \in 1..Len(samples) : samples[j] < next'[s] /\ samples[j] < n
        <5>1. \A j \in 1..Len(samples) : samples[j] < next[s]
          BY <3>2, Zenon DEF Waiting
        <5>2. n \in Nat /\ next[s] <= n /\ next'[s] = n + 1 /\ next[s] \in Nat
          BY <1>1, <3>2
        <5>3. QED
          BY <3>3, <5>1, <5>2
      <4>4. \A i \in 1..Len(wire'[s]), j \in 1..Len(samples) : samples[j] < wire'[s][i]
        <5>1. \A i \in 1..Len(wire[s]), j \in 1..Len(samples) : samples[j] < wire[s][i]
          BY <3>2, ZenonT(30) DEF Waiting
        <5>2. \A i \in 1..Len(wire'[s]) : i \in 1..Len(wire[s]) \/ i = Len(wire[s]) + 1
          BY <3>1, SMTT(30)
        <5>3. QED
          BY <3>1, <4>3, <5>1, <5>2, Zenon
      <4>5. QED
        BY <1>1, <4>2, <4>3, <4>4, ZenonT(30) DEF Waiting
    <3>5. QED
      BY <1>1, <2>3, <3>4, ZenonT(30) DEF page
  <2>4. QED
    BY <2>1, <2>2, <2>3, Zenon
<1>5. QED
  BY <1>2, <1>3, <1>4, Zenon

\* The other steps of the server.
LEMMA ServerSteps ==
  ASSUME EInv, SendSample \/ ServerStops \/ ServerStarts \/ \E s \in Slot : EndWs(s)
  PROVE  EInv'
<1> USE DEF EInv, SendSample, ServerStops, ServerStarts, EndWs, page
<1>1. /\ UNCHANGED <<next, wire, page, samples>> /\ count <= count'
      /\ count' \in 0..MaxSamples
  BY SMTT(30) DEF EventTypeOK
<1>2. EventTypeOK'
  <2>1. task' \in [Slot -> BOOLEAN] /\ serving' \in BOOLEAN
    BY ZenonT(30) DEF EventTypeOK
  <2>2. QED
    BY <1>1, <2>1 DEF EventTypeOK
<1>3. OneSocket' /\ Receivers' /\ Measured' /\ SamplesInOrder'
  <2>1. OneSocket' /\ SamplesInOrder'
    BY <1>1, Zenon DEF OneSocket, SamplesInOrder
  <2>2. Receivers' /\ Measured'
    <3> HIDE DEF SendSample, ServerStops, ServerStarts, EndWs
    <3>1. /\ count \in Nat /\ \A t \in Slot : next[t] \in Nat
          /\ \A j \in 1..Len(samples) : samples[j] \in Nat
      <4>1. count \in 0..MaxSamples /\ samples \in Seq(1..MaxSamples) /\ next \in [Slot -> 1..MaxSamples + 1]
        BY Zenon DEF EventTypeOK
      <4>2. QED
        BY ONLY EventAssumption, <4>1
    <3>2. QED
      BY <1>1, <3>1 DEF Receivers, Measured
  <2>3. QED
    BY <2>1, <2>2, Zenon
<1>4. WireInv'
  BY <1>1 DEF WireInv, Waiting, Increasing
<1>5. QED
  BY <1>2, <1>3, <1>4, Zenon

\* Every step keeps the invariant.
LEMMA NextEInv == EInv /\ [EventNext]_eventVars => EInv'
<1> SUFFICES ASSUME EInv, [EventNext]_eventVars PROVE EInv'
  BY Zenon
<1>1. CASE UNCHANGED eventVars
  BY <1>1, SMTT(30) DEF eventVars, EInv, EventTypeOK, OneSocket, Receivers, WireInv, Waiting, Increasing,
              Measured, SamplesInOrder
<1>2. CASE EventNext
  BY <1>2, ConnectStep, MessageStep, CloseStep, UpgradeStep, RecvStep, ServerSteps DEF EventNext
<1>3. QED
  BY <1>1, <1>2

\* It holds throughout: a console has one socket at most, what the server measures it
\* sends in this order, and the page has received increasing samples, over any number of
\* losses, reconnects and server restarts.
THEOREM EventInvariance == EventSpec => []EInv
  BY InitEInv, NextEInv, PTL DEF EventSpec

HIDE EventAssumption

(***************************************************************************)
(* DevicePage.                                                             *)
(***************************************************************************)
\* The action that waits for a list has a request under way, and only then is one
\* awaited: handleConnect and handleDisconnect end when that request does.
FollowsItsList ==
    /\ follow # {} <=> action = "list"
    /\ \A q \in follow : fetch[q] # "none" /\ follow = {q}

\* The inductive invariant.
PInv == PageTypeOK /\ FollowsItsList

\* The page's invariant holds of every state.
THEOREM PageInvariance == PageSpec => []PInv
<1> USE PageAssumption
<1>1. PageInit => PInv
  <2> SUFFICES ASSUME PageInit PROVE PInv
    OBVIOUS
  <2>1. exported \in BOOLEAN /\ shown \in BOOLEAN /\ answer \in [Fetch -> BOOLEAN]
    BY Zenon DEF PageInit
  <2>2. PageTypeOK
    BY <2>1 DEF PageInit, PageTypeOK
  <2>3. FollowsItsList
    BY Zenon DEF PageInit, FollowsItsList
  <2>4. QED
    BY <2>2, <2>3 DEF PInv
<1>2. ASSUME PInv, [PageNext]_pageVars PROVE PInv'
  <2> USE <1>2 DEF PInv
  <2>1. CASE UNCHANGED pageVars
    BY <2>1, Zenon DEF pageVars, PageTypeOK, FollowsItsList
  <2>2. CASE OthersChange \/ Click \/ PostDisconnect \/ PostConnect \/ ActFails
    <3> USE <2>2 DEF OthersChange, Click, PostDisconnect, PostConnect, ActFails
    <3>1. exported' \in BOOLEAN
      BY ZenonT(30) DEF PageTypeOK
    <3>2. PageTypeOK'
      BY <3>1 DEF PageTypeOK
    <3>3. FollowsItsList'
      BY Zenon DEF FollowsItsList
    <3>4. QED
      BY <3>2, <3>3
  <2>3. ASSUME NEW q \in Fetch, Poll(q) \/ GetDevices(q) \/ FetchList(q) PROVE PInv'
    <3> USE <2>3 DEF Poll, GetDevices, FetchList
    <3>1. PageTypeOK'
      BY Zenon DEF PageTypeOK
    <3>2. FollowsItsList'
      BY Zenon DEF PageTypeOK, FollowsItsList
    <3>3. QED
      BY <3>1, <3>2, Zenon
  <2>4. ASSUME NEW q \in Fetch, SetDevices(q) \/ FetchFails(q) PROVE PInv'
    <3> USE <2>4 DEF SetDevices, FetchFails, Settled
    <3>1. shown' \in BOOLEAN /\ answer' \in [Fetch -> BOOLEAN]
      BY ZenonT(30) DEF PageTypeOK
    <3>2. PageTypeOK'
      BY <3>1, Zenon DEF PageTypeOK
    <3>3. FollowsItsList'
      BY DEF PageTypeOK, FollowsItsList
    <3>4. QED
      BY <3>2, <3>3
  <2>5. QED
    BY <2>1, <2>2, <2>3, <2>4, Zenon DEF PageNext
<1>3. QED
  BY <1>1, <1>2, PTL DEF PageSpec

(***************************************************************************)
(* MdnsScan.  What a scan has found follows from what it has taken.        *)
(***************************************************************************)
SInv == ScanTypeOK /\ FirstReportWins

\* Nothing is found at the start.
LEMMA InitSInv == ScanInit => SInv
<1> SUFFICES ASSUME ScanInit PROVE SInv
  OBVIOUS
<1>1. DOMAIN <<>> = {} /\ <<>> \in [{} -> Address]
  OBVIOUS
<1>2. <<>> \in Found
  BY <1>1, Zenon DEF Found
<1>3. ScanTypeOK
  BY <1>2, SMTT(30) DEF ScanInit, ScanTypeOK
<1>4. FirstReportWins
  <2> SUFFICES ASSUME NEW r \in Request
               PROVE  /\ DOMAIN byName[r] = {taken[r][i][1] : i \in 1..Len(taken[r])}
                      /\ 1..Len(taken[r]) = {}
    BY DEF FirstReportWins
  <2>1. byName[r] = <<>> /\ taken[r] = <<>> /\ 1..Len(<<>>) = {}
    BY SMTT(30) DEF ScanInit
  <2>2. QED
    BY <1>1, <2>1, Zenon
<1>5. QED
  BY <1>3, <1>4 DEF SInv

\* What is found is a function of names, and stays one.
LEMMA InsertFacts ==
  ASSUME NEW f \in Found, NEW s \in ServiceName, NEW a \in Address
  PROVE  /\ Insert(f, s, a) \in Found
         /\ DOMAIN Insert(f, s, a) = DOMAIN f \cup {s}
         /\ \A x \in DOMAIN f : Insert(f, s, a)[x] = f[x]
         /\ s \notin DOMAIN f => Insert(f, s, a)[s] = a
<1>1. PICK names \in SUBSET ServiceName : f \in [names -> Address]
  BY Zenon DEF Found
<1>2. /\ DOMAIN Insert(f, s, a) = DOMAIN f \cup {s}
      /\ \A x \in DOMAIN f : Insert(f, s, a)[x] = f[x]
      /\ s \notin DOMAIN f => Insert(f, s, a)[s] = a
  BY DEF Insert
<1>3. Insert(f, s, a) \in [names \cup {s} -> Address]
  BY <1>1 DEF Insert
<1>4. names \cup {s} \in SUBSET ServiceName
  BY <1>1
<1>5. QED
  BY <1>2, <1>3, <1>4, Zenon DEF Found

\* A report is taken.
LEMMA TakeStep == ASSUME SInv, NEW r \in Request, TakeReport(r) PROVE SInv'
<1> DEFINE e == Head(reports[r])
<1>1. /\ reports[r] \in Seq(Report) /\ taken[r] \in Seq(Report) /\ e \in Report
      /\ Tail(reports[r]) \in Seq(Report) /\ byName[r] \in Found
  BY SMTT(30) DEF SInv, ScanTypeOK, TakeReport
<1>2. e[1] \in ServiceName /\ e[2] \in Address
  BY <1>1, SMTT(30) DEF Report
<1>3. /\ byName' = [byName EXCEPT ![r] = Insert(byName[r], e[1], e[2])]
      /\ taken' = [taken EXCEPT ![r] = Append(taken[r], e)]
      /\ reports' = [reports EXCEPT ![r] = Tail(reports[r])]
      /\ UNCHANGED <<mdns, rpc>>
  BY ZenonT(30) DEF TakeReport
<1> HIDE DEF e
<1>4. ScanTypeOK'
  <2>1. Insert(byName[r], e[1], e[2]) \in Found
    BY <1>1, <1>2, InsertFacts, ZenonT(30)
  <2>2. Append(taken[r], e) \in Seq(Report)
    BY <1>1, SMTT(30)
  <2>3. QED
    BY <1>1, <1>3, <2>1, <2>2, SMTT(30) DEF SInv, ScanTypeOK
<1>5. ASSUME NEW t \in Request
      PROVE  /\ DOMAIN byName'[t] = {taken'[t][i][1] : i \in 1..Len(taken'[t])}
             /\ \A i \in 1..Len(taken'[t]) :
                  (\A j \in 1..(i - 1) : taken'[t][j][1] # taken'[t][i][1])
                    => byName'[t][taken'[t][i][1]] = taken'[t][i][2]
  <2>1. CASE t # r
    <3>1. byName'[t] = byName[t] /\ taken'[t] = taken[t]
      BY <1>3, <2>1, SMTT(30) DEF SInv, ScanTypeOK
    <3>2. /\ DOMAIN byName[t] = {taken[t][i][1] : i \in 1..Len(taken[t])}
          /\ \A i \in 1..Len(taken[t]) :
               (\A j \in 1..(i - 1) : taken[t][j][1] # taken[t][i][1])
                 => byName[t][taken[t][i][1]] = taken[t][i][2]
      BY ZenonT(30) DEF SInv, FirstReportWins
    <3>3. QED
      BY <3>1, <3>2, Zenon
  <2>2. CASE t = r
    <3> DEFINE q == taken[r]
               n == Len(q)
               f == byName[r]
               q2 == Append(q, e)
               f2 == Insert(f, e[1], e[2])
    <3>1. byName'[t] = f2 /\ taken'[t] = q2
      BY <1>3, <2>2, Zenon DEF SInv, ScanTypeOK
    <3>2. /\ n \in Nat /\ Len(q2) = n + 1 /\ q2[n + 1] = e
          /\ \A i \in 1..n : q2[i] = q[i]
      BY <1>1, SMTT(30)
    <3>3. /\ DOMAIN f2 = DOMAIN f \cup {e[1]}
          /\ \A x \in DOMAIN f : f2[x] = f[x]
          /\ e[1] \notin DOMAIN f => f2[e[1]] = e[2]
      <4> DEFINE name == e[1]
                 address == e[2]
      <4>1. f \in Found /\ name \in ServiceName /\ address \in Address
        BY <1>1, <1>2
      <4>2. f2 = Insert(f, name, address)
        OBVIOUS
      <4> HIDE DEF f, name, address, f2
      <4>3. /\ DOMAIN f2 = DOMAIN f \cup {name}
            /\ \A x \in DOMAIN f : f2[x] = f[x]
            /\ name \notin DOMAIN f => f2[name] = address
        BY <4>1, <4>2, InsertFacts, ZenonT(30)
      <4>4. QED
        BY <4>3, Zenon DEF name, address
    <3>4. /\ DOMAIN f = {q[i][1] : i \in 1..n}
          /\ \A i \in 1..n : (\A j \in 1..(i - 1) : q[j][1] # q[i][1])
                               => f[q[i][1]] = q[i][2]
      BY ZenonT(30) DEF SInv, FirstReportWins
    <3> HIDE DEF q, n, f, q2, f2
    <3>5. DOMAIN f2 = {q2[i][1] : i \in 1..(n + 1)}
      BY <3>2, <3>3, <3>4, SMTT(30)
    <3>6. ASSUME NEW i \in 1..(n + 1), \A j \in 1..(i - 1) : q2[j][1] # q2[i][1]
          PROVE  f2[q2[i][1]] = q2[i][2]
      <4>1. CASE i \in 1..n
        <5>1. \A j \in 1..(i - 1) : j \in 1..n /\ q[j][1] # q[i][1]
          BY <3>2, <3>6, <4>1
        <5>2. QED
          <6>1. q[i][1] \in DOMAIN f /\ f[q[i][1]] = q[i][2]
            BY <3>4, <4>1, <5>1, Zenon
          <6>2. QED
            BY <3>2, <3>3, <4>1, <6>1, Zenon
      <4>2. CASE i = n + 1
        <5>1. e[1] \notin DOMAIN f
          BY <3>2, <3>4, <3>6, <4>2, SMTT(30)
        <5>2. QED
          BY <3>2, <3>3, <4>2, <5>1, SMTT(30)
      <4>3. QED
        BY <3>2, <4>1, <4>2, SMTT(30)
    <3>7. QED
      BY <3>1, <3>2, <3>5, <3>6, ZenonT(30)
  <2>3. QED
    BY <2>1, <2>2, Zenon
<1>6. FirstReportWins'
  BY <1>5, Zenon DEF FirstReportWins
<1>7. QED
  BY <1>4, <1>6, Zenon DEF SInv

\* What is found stays right while no report is taken.
LEMMA FoundStays ==
  ASSUME FirstReportWins, taken' = taken, byName' = byName
  PROVE  FirstReportWins'
BY DEF FirstReportWins

\* The invariant of the scans holds of every state.
THEOREM ScanInvariance == ScanSpec => []SInv
<1>1. ASSUME SInv, [ScanNext]_scanVars PROVE SInv'
  <2>1. CASE UNCHANGED scanVars
    <3>1. /\ mdns' = mdns /\ rpc' = rpc /\ reports' = reports /\ taken' = taken
          /\ byName' = byName
      BY <2>1 DEF scanVars
    <3>2. ScanTypeOK'
      BY <1>1, <3>1, Zenon DEF SInv, ScanTypeOK
    <3>3. FirstReportWins'
      BY <1>1, <3>1, FoundStays DEF SInv
    <3>4. QED
      BY <3>2, <3>3 DEF SInv
  <2>2. ASSUME NEW r \in Request, Browse(r) \/ ScanEnds(r) PROVE SInv'
    <3>1. reports' = reports /\ taken' = taken /\ byName' = byName /\ mdns' \in BOOLEAN
      BY <1>1, <2>2, Zenon DEF Browse, ScanEnds, SInv, ScanTypeOK
    <3>2. rpc' \in [Request -> {"idle", "browsing", "done"}]
      BY <1>1, <2>2, Zenon DEF Browse, ScanEnds, SInv, ScanTypeOK
    <3>3. ScanTypeOK'
      BY <1>1, <3>1, <3>2 DEF SInv, ScanTypeOK
    <3>4. FirstReportWins'
      BY <1>1, <3>1, FoundStays DEF SInv
    <3>5. QED
      BY <3>3, <3>4 DEF SInv
  <2>3. ASSUME NEW r \in Request, NEW e \in Report, Resolved(r, e) PROVE SInv'
    <3>1. reports' \in [Request -> Seq(Report)]
      BY <1>1, <2>3 DEF Resolved, SInv, ScanTypeOK
    <3>2. mdns' = mdns /\ rpc' = rpc /\ taken' = taken /\ byName' = byName
      BY <2>3, Zenon DEF Resolved
    <3>3. ScanTypeOK'
      BY <1>1, <3>1, <3>2 DEF SInv, ScanTypeOK
    <3>4. FirstReportWins'
      BY <1>1, <3>2, FoundStays DEF SInv
    <3>5. QED
      BY <3>3, <3>4, Zenon DEF SInv
  <2>4. QED
    BY <1>1, <2>1, <2>2, <2>3, TakeStep DEF ScanNext
<1>2. QED
  BY <1>1, InitSInv, PTL DEF ScanSpec

(***************************************************************************)
(* HotplugMonitor.  The queues and the event in the thread's hand, put     *)
(* together, are all events in order.                                      *)
(***************************************************************************)
\* The event the thread holds is the one between its poll and its send; the thread
\* ends only when the monitor is gone.
InHand == IF event = 0 THEN <<>> ELSE <<event>>

\* The thread holds an event exactly while it sends it, and ends after the monitor.
ThreadHolds ==
    /\ event # 0 <=> hotpc = "send"
    /\ hotpc = "ended" => ~monitor

\* The inductive invariant.
HInv == HotplugTypeOK /\ ThreadHolds /\ EventsInOrder

\* The monitor starts with an idle source.
LEMMA InitHInv == HotplugInit => HInv
<1> SUFFICES ASSUME HotplugInit PROVE HInv
  OBVIOUS
<1>1. shut \in BOOLEAN /\ monitor \in BOOLEAN
  BY Zenon DEF HotplugInit
<1>2. HotplugTypeOK
  BY <1>1, HotplugAssumption DEF HotplugInit, HotplugTypeOK
<1>3. ThreadHolds /\ EventsInOrder
  BY DEF HotplugInit, ThreadHolds, EventsInOrder
<1>4. QED
  BY <1>2, <1>3 DEF HInv

\* What the invariant says of the queues.
LEMMA Queues ==
  ASSUME HInv
  PROVE  /\ received \in Seq(Nat) /\ channel \in Seq(Nat) /\ InHand \in Seq(Nat)
         /\ pending \in Seq(Nat) /\ emitted \in Nat /\ event \in Nat
         /\ monitor => received \o channel \o InHand \o pending = [i \in 1..emitted |-> i]
<1>1. \A q \in Seq(1..MaxEvents) : q \in Seq(Nat)
  BY HotplugAssumption, SeqMonotonic
<1>2. emitted \in Nat /\ event \in Nat
  BY HotplugAssumption DEF HInv, HotplugTypeOK
<1>3. InHand \in Seq(Nat)
  BY <1>2 DEF InHand
<1>4. QED
  BY <1>1, <1>2, <1>3, Zenon DEF HInv, HotplugTypeOK, EventsInOrder, InHand

\* A step of the platform or of the source.
LEMMA SourceSteps == ASSUME HInv, DeviceEvent \/ ShutSource \/ PollSource PROVE HInv'
<1>1. CASE DeviceEvent
  <2> USE <1>1 DEF DeviceEvent
  <2>1. HotplugTypeOK'
    BY HotplugAssumption DEF HInv, HotplugTypeOK
  <2>2. ThreadHolds' /\ InHand' = InHand
    BY DEF HInv, ThreadHolds, InHand
  <2>3. ASSUME monitor
        PROVE  received' \o channel' \o InHand' \o pending' = [i \in 1..emitted' |-> i]
    <3> DEFINE front == received \o channel \o InHand
    <3>1. front \in Seq(Nat) /\ emitted + 1 \in Nat
      BY Queues
    <3>2. front \o Append(pending, emitted + 1) = Append(front \o pending, emitted + 1)
      <4> HIDE DEF front
      <4>1. pending \in Seq(Nat)
        BY Queues
      <4>2. QED
        BY ONLY <3>1, <4>1, AppendConcat
    <3>3. QED
      BY <2>2, <2>3, <3>2, Queues, CountingSeq, ZenonT(30)
  <2>4. QED
    BY <2>1, <2>2, <2>3, ZenonT(30) DEF HInv, EventsInOrder, InHand
<1>2. CASE ShutSource
  BY <1>2, Zenon DEF HInv, ShutSource, HotplugTypeOK, ThreadHolds, EventsInOrder
<1>3. CASE PollSource
  <2> USE <1>3 DEF PollSource
  <2>1. Head(pending) \in 1..MaxEvents /\ Tail(pending) \in Seq(1..MaxEvents)
    <3>1. pending \in Seq(1..MaxEvents) /\ pending # <<>>
      BY Zenon DEF HInv, HotplugTypeOK
    <3>2. QED
      BY <3>1, HeadTailProperties, Zenon
  <2>2. HotplugTypeOK' /\ ThreadHolds'
    BY <2>1, HotplugAssumption DEF HInv, HotplugTypeOK, ThreadHolds
  <2>3. InHand = <<>> /\ InHand' = <<Head(pending)>>
    BY <2>1, HotplugAssumption, SMTT(30) DEF HInv, ThreadHolds, InHand
  <2>4. ASSUME monitor
        PROVE  received' \o channel' \o InHand' \o pending' = [i \in 1..emitted' |-> i]
    <3> DEFINE front == received \o channel
    <3>1. front \in Seq(Nat)
      BY Queues
    <3>2. Append(front, Head(pending)) \o Tail(pending) = front \o pending
      <4> HIDE DEF front
      <4>1. pending \in Seq(Nat) /\ pending # <<>>
        BY Queues, Zenon
      <4>2. QED
        BY <3>1, <4>1, MoveHead, ZenonT(30)
    <3>3. front \o <<Head(pending)>> = Append(front, Head(pending)) /\ front \o <<>> = front
      BY <3>1, <2>1, SMTT(30)
    <3>4. QED
      BY <2>3, <2>4, <3>2, <3>3, Queues, Zenon
  <2>5. QED
    BY <2>2, <2>4, Zenon DEF HInv, EventsInOrder, InHand
<1>4. QED
  BY <1>1, <1>2, <1>3

\* A step of the thread's send, of the receiver, or the monitor is dropped.
LEMMA MonitorSteps == ASSUME HInv, SendEvent \/ RecvEvent \/ DropMonitor PROVE HInv'
<1>1. CASE SendEvent
  <2> USE <1>1 DEF SendEvent
  <2>1. HotplugTypeOK' /\ ThreadHolds'
    <3>1. event \in 1..MaxEvents /\ channel \in Seq(1..MaxEvents)
      BY HotplugAssumption DEF HInv, HotplugTypeOK, ThreadHolds
    <3>2. channel' \in Seq(1..MaxEvents)
      <4>1. Append(channel, event) \in Seq(1..MaxEvents)
        BY <3>1, AppendProperties, Zenon
      <4>2. QED
        BY <3>1, <4>1, ZenonT(30)
    <3>3. HotplugTypeOK'
      BY <3>2, HotplugAssumption DEF HInv, HotplugTypeOK
    <3>4. ThreadHolds'
      BY <3>1, Zenon DEF HInv, ThreadHolds
    <3>5. QED
      BY <3>3, <3>4, Zenon
  <2>2. InHand = <<event>> /\ InHand' = <<>>
    BY SMTT(30) DEF HInv, ThreadHolds, InHand
  <2>3. ASSUME monitor
        PROVE  received' \o channel' \o InHand' \o pending' = [i \in 1..emitted' |-> i]
    <3>1. channel' = Append(channel, event) /\ UNCHANGED <<received, pending, emitted>>
      BY <2>3
    <3>2. received \o Append(channel, event) = Append(received \o channel, event)
      <4>1. received \in Seq(Nat) /\ channel \in Seq(Nat) /\ event \in Nat
        BY Queues, Zenon
      <4>2. QED
        BY ONLY <4>1, AppendConcat
    <3>3. /\ (received \o channel) \o <<event>> = Append(received \o channel, event)
          /\ Append(received \o channel, event) \o <<>> = Append(received \o channel, event)
      BY Queues, SMTT(30)
    <3>4. QED
      BY <2>2, <2>3, <3>1, <3>2, <3>3, Queues, Zenon
  <2>4. QED
    BY <2>1, <2>3, Zenon DEF HInv, EventsInOrder, InHand
<1>2. CASE RecvEvent
  <2> USE <1>2 DEF RecvEvent
  <2>1. HotplugTypeOK' /\ ThreadHolds' /\ InHand' = InHand
    <3>1. /\ channel \in Seq(1..MaxEvents) /\ channel # <<>>
          /\ received \in Seq(1..MaxEvents)
      BY DEF HInv, HotplugTypeOK
    <3>2. channel' \in Seq(1..MaxEvents) /\ received' \in Seq(1..MaxEvents)
      BY <3>1, HeadTailProperties, AppendProperties, Zenon
    <3>3. HotplugTypeOK'
      BY <3>2 DEF HInv, HotplugTypeOK
    <3>4. QED
      BY <3>3, Zenon DEF HInv, ThreadHolds, InHand
  <2>2. Append(received, Head(channel)) \o Tail(channel) = received \o channel
    <3>1. received \in Seq(Nat) /\ channel \in Seq(Nat) /\ channel # <<>>
      BY Queues, Zenon
    <3>2. QED
      BY <3>1, MoveHead, ZenonT(30)
  <2>3. QED
    BY <2>1, <2>2, Queues, Zenon DEF HInv, EventsInOrder, InHand
<1>3. CASE DropMonitor
  <2>1. HotplugTypeOK'
    <3>1. monitor' \in BOOLEAN
      BY <1>3, Zenon DEF DropMonitor
    <3>2. QED
      BY <1>3, <3>1 DEF HInv, DropMonitor, HotplugTypeOK
  <2>2. QED
    BY <1>3, <2>1, Zenon DEF HInv, DropMonitor, ThreadHolds, EventsInOrder
<1>4. QED
  BY <1>1, <1>2, <1>3

\* The invariant of the hot-plug monitor holds of every state.
THEOREM HotplugInvariance == HotplugSpec => []HInv
<1>1. HInv /\ [HotplugNext]_hotplugVars => HInv'
  <2>1. HInv /\ UNCHANGED hotplugVars => HInv'
    <3> SUFFICES ASSUME HInv, UNCHANGED hotplugVars PROVE HInv'
      BY Zenon
    <3>1. HotplugTypeOK' /\ ThreadHolds'
      BY DEF HInv, hotplugVars, HotplugTypeOK, ThreadHolds
    <3>2. EventsInOrder'
      BY ZenonT(30) DEF HInv, hotplugVars, EventsInOrder
    <3>3. QED
      BY <3>1, <3>2 DEF HInv
  <2>2. QED
    BY <2>1, SourceSteps, MonitorSteps DEF HotplugNext
<1>2. QED
  BY <1>1, InitHInv, PTL DEF HotplugSpec

(***************************************************************************)
(* All of them                                                             *)
(***************************************************************************)
\* The variables of the programs keep their types.
THEOREM ProgramsTypes == EachProgramSpec => []ProgramsTypeOK
<1>1. WInv /\ EInv /\ PInv /\ SInv /\ HInv => ProgramsTypeOK
  BY DEF WInv, EInv, PInv, SInv, HInv, ProgramsTypeOK
<1>2. QED
  BY <1>1, WindowsInvariance, EventInvariance, PageInvariance, ScanInvariance,
     HotplugInvariance, PTL DEF EachProgramSpec

\* What comes out is what went in: over any losses, lags and reconnects the dashboard
\* shows samples in order and none twice; a scan answers with the first report of each
\* service reported to it; and hot-plug events are neither lost, doubled nor overtaken
\* while the monitor is there.
THEOREM DeliveryIsTrue == EachProgramSpec => []DeliveredIsTrue
<1>1. EInv /\ SInv /\ HInv => DeliveredIsTrue
  BY DEF EInv, SInv, HInv, DeliveredIsTrue
<1>2. QED
  BY <1>1, EventInvariance, ScanInvariance, HotplugInvariance, PTL DEF EachProgramSpec

\* A thread of ServerController::start that has not been signalled is the one whose
\* sender the controller holds: no click makes a thread that stop cannot reach.
THEOREM EveryThreadCanBeStopped == EachProgramSpec => []ThreadsCanBeStopped
<1>1. WInv => ThreadsCanBeStopped
  BY DEF WInv
<1>2. QED
  BY <1>1, WindowsInvariance, PTL DEF EachProgramSpec

=============================================================================
