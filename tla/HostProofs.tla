---------------------------- MODULE HostProofs ------------------------------
(***************************************************************************)
(* Proofs about parts of a host that share no state, each by an inductive  *)
(* invariant of its own and for every value of its constants: the batcher  *)
(* of replies, the buffers, the ports, the file of the settings and the    *)
(* token bucket.                                                           *)
(***************************************************************************)
EXTENDS HostParts, SequenceTheorems, WellFoundedInduction, TLAPS

-----------------------------------------------------------------------------
(***************************************************************************)
(* UrbBatcher                                                              *)
(*                                                                         *)
(* The stream (wire, batch being written, buffer, in this order) only grows *)
(* at its end, by a reply younger than all in it.  The inductive invariant *)
(* says so, and what a reader of the code checks by hand: last_seqnum is   *)
(* the seqnum of the last reply in the buffer, and a batch is being        *)
(* written only while the buffer is empty.                                 *)
(***************************************************************************)
\* The ids on a stream are at most n.
UpTo(s, n) == \A i \in 1 .. Len(s) : s[i].id <= n

\* The ids on the stream are those of executed URBs; while a reply waits for
\* push it is the youngest.
StreamInv ==
    /\ UpTo(Stream, executed)
    /\ pc = "push" => /\ reply \in Reply
                      /\ reply.id = executed
                      /\ UpTo(Stream, executed - 1)
    /\ pc \notin {"write", "closed"} => batch = <<>>
    /\ pc \in {"write", "closed"} => buffer = <<>>

\* What push relies on between two calls.
BatchInv ==
    /\ bufsize <= Capacity
    /\ Len(buffer) < MaxBatch
    /\ buffer # <<>> => last_seqnum = buffer[Len(buffer)].seqnum
    /\ BatchConsecutive
    /\ TimedWhileFilled

\* The inductive invariant.
IInv == TypeOK /\ StreamInv /\ BatchInv /\ InOrder /\ Accounted

-----------------------------------------------------------------------------
\* The replies of a stream are replies, with numbers as ids.
LEMMA RepliesOf ==
    ASSUME NEW s \in Seq(Reply)
    PROVE  /\ Len(s) \in Nat
           /\ \A i \in 1 .. Len(s) : s[i] \in Reply /\ s[i].id \in Nat
           /\ \A r \in Reply : r.id \in Nat
<1>1. \A r \in Reply : r.id \in Nat
  BY BatchAssumption, SMTT(30) DEF Reply
<1>2. QED
  BY <1>1, ElementOfSeq, LenProperties, SMTT(30)

\* A reply younger than all on a stream may be appended to it.
LEMMA AppendYoungest ==
    ASSUME NEW s \in Seq(Reply), NEW r \in Reply,
           Ascending(s), UpTo(s, r.id - 1)
    PROVE  /\ Ascending(Append(s, r))
           /\ UpTo(Append(s, r), r.id)
           /\ Ids(Append(s, r)) = Ids(s) \cup {r.id}
<1> DEFINE t == Append(s, r)
<1>1. /\ Len(t) = Len(s) + 1
      /\ \A i \in 1 .. Len(s) : t[i] = s[i]
      /\ t[Len(s) + 1] = r
      /\ Len(s) \in Nat
  BY AppendProperties, LenProperties, SMTT(30)
<1>2. r.id \in Nat /\ \A i \in 1 .. Len(s) : s[i].id \in Nat
  BY RepliesOf, SMTT(30)
<1> HIDE DEF t
<1>3. Ascending(t)
  <2> SUFFICES ASSUME NEW i \in 1 .. Len(s) + 1, NEW j \in 1 .. Len(s) + 1, i < j
               PROVE  t[i].id < t[j].id
    BY <1>1, SMTT(30) DEF Ascending
  <2>1. i \in 1 .. Len(s) /\ t[i] = s[i] /\ s[i].id <= r.id - 1
    BY <1>1, SMTT(30) DEF UpTo
  <2>2. CASE j = Len(s) + 1
    BY <1>1, <1>2, <2>1, <2>2, SMTT(30)
  <2>3. CASE j \in 1 .. Len(s)
    BY <1>1, <2>1, <2>3, SMTT(30) DEF Ascending
  <2>4. QED
    BY <1>1, <2>2, <2>3, SMTT(30)
<1>4. UpTo(t, r.id)
  BY <1>1, <1>2, SMTT(30) DEF UpTo
<1>5. Ids(t) = Ids(s) \cup {r.id}
  BY <1>1, SMTT(30) DEF Ids
<1>6. QED
  BY <1>3, <1>4, <1>5, SMTT(30) DEF t

\* What the steps do to the stream: it stays as it is when the empty part of it
\* moves, and grows at its end when the buffer does.
LEMMA StreamMoves ==
    ASSUME NEW w \in Seq(Reply), NEW b \in Seq(Reply)
    PROVE  /\ w \o b \in Seq(Reply)
           /\ w \o <<>> \o b = w \o b
           /\ w \o b \o <<>> = w \o b
           /\ w \o b \o <<>> \o <<>> = w \o b
           /\ \A r \in Reply : w \o Append(b, r) = Append(w \o b, r)
<1>1. w \o b \in Seq(Reply) /\ w \o <<>> = w /\ w \o b \o <<>> = w \o b
  BY ConcatProperties, ConcatEmptySeq, ZenonT(30)
<1>2. ASSUME NEW r \in Reply
      PROVE  w \o Append(b, r) = Append(w \o b, r)
  <2>1. <<r>> \in Seq(Reply)
    BY SMTT(30)
  <2>2. Append(b, r) = b \o <<r>> /\ Append(w \o b, r) = (w \o b) \o <<r>>
    BY <1>1, AppendIsConcat, Zenon
  <2>3. QED
    BY <2>1, <2>2, ConcatAssociative, SMTT(30)
<1>3. QED
  BY <1>1, <1>2, Zenon

\* The empty loop is in the invariant.
LEMMA InitIInv == Init => IInv
<1> SUFFICES ASSUME Init PROVE IInv
  BY SMTT(30)
<1>1. <<>> \in Seq(Reply)
  BY SMTT(30)
<1>2. TypeOK
  BY <1>1, BatchAssumption, SMTT(30) DEF Init, TypeOK
<1>3. Stream = <<>>
  BY <1>1, StreamMoves, SMTT(30) DEF Init, Stream
<1>4. StreamInv /\ InOrder /\ Accounted
  BY <1>3, SMTT(30) DEF Init, StreamInv, InOrder, Accounted, Ascending, UpTo, Ids
<1>5. BatchInv
  BY BatchAssumption, SMTT(30) DEF Init, BatchInv, BatchConsecutive, TimedWhileFilled
<1>6. QED
  BY <1>2, <1>4, <1>5, SMTT(30) DEF IInv

\* A step that leaves the batcher alone keeps what push relies on.
LEMMA SameBatcher == BatchInv /\ UNCHANGED batcher => BatchInv'
  BY ZenonT(30) DEF BatchInv, batcher, BatchConsecutive, TimedWhileFilled

\* Emptying the buffer keeps what push relies on.
LEMMA EmptiedBatcher ==
    buffer' = <<>> /\ bufsize' = 0 /\ batch_start' = "none" => BatchInv'
  BY BatchAssumption, SMTT(30) DEF BatchInv, BatchConsecutive, TimedWhileFilled

\* Time passing, and a command being executed.
LEMMA EnvironmentStep ==
    ASSUME IInv, TimerExpires \/ \E s \in Seqnum, z \in Sizes : Submit(s, z)
    PROVE  IInv'
<1>1. CASE TimerExpires
  <2>1. TypeOK'
    BY <1>1, SMTT(30) DEF IInv, TypeOK, TimerExpires
  <2>2. Stream' = Stream
    BY <1>1, Zenon DEF TimerExpires, Stream
  <2>3. StreamInv' /\ InOrder' /\ Accounted'
    BY <1>1, <2>2, Zenon DEF IInv, StreamInv, InOrder, Accounted, TimerExpires
  <2>4. BatchInv'
    BY <1>1, SMTT(30) DEF IInv, BatchInv, BatchConsecutive, TimedWhileFilled, TimerExpires
  <2>5. QED
    BY <2>1, <2>3, <2>4, Zenon DEF IInv
<1>2. ASSUME NEW s \in Seqnum, NEW z \in Sizes, Submit(s, z)
      PROVE  IInv'
  <2>1. /\ executed \in Nat /\ executed + 1 \in 1 .. MaxUrbs
        /\ executed' = executed + 1
        /\ reply' \in Reply /\ reply'.id = executed + 1
    BY <1>2, BatchAssumption, SMTT(30) DEF Submit, IInv, TypeOK, Reply
  <2>2. TypeOK'
    BY <1>2, <2>1, BatchAssumption, SMTT(30) DEF Submit, IInv, TypeOK, batcher
  <2>3. Stream' = Stream /\ Stream \in Seq(Reply)
    BY <1>2, ConcatProperties, ZenonT(30) DEF Submit, Stream, batcher, IInv, TypeOK
  <2>4. \A i \in 1 .. Len(Stream) : Stream[i] \in Reply /\ Stream[i].id \in Nat
    BY <2>3, RepliesOf, Zenon
  <2>5. UpTo(Stream, executed') /\ UpTo(Stream, executed' - 1)
    <3>1. UpTo(Stream, executed)
      BY Zenon DEF IInv, StreamInv
    <3>2. executed' = executed + 1 /\ executed' - 1 = executed
      BY <2>1
    <3>3. \A i \in 1 .. Len(Stream) : Stream[i].id <= executed
      BY <3>1, Zenon DEF UpTo
    <3>4. \A i \in 1 .. Len(Stream) : Stream[i].id <= executed + 1
      BY <2>1, <2>4, <3>3
    <3>5. QED
      BY <3>2, <3>3, <3>4, Zenon DEF UpTo
  <2>6. StreamInv'
    BY <1>2, <2>1, <2>3, <2>5, ZenonT(30) DEF Submit, StreamInv, IInv, batcher
  <2>7. InOrder'
    BY <2>3, SMTT(30) DEF InOrder, IInv
  <2>8. Ids(Stream) \cup refused = 1 .. executed /\ Ids(Stream) \cap refused = {}
    BY <1>2, ZenonT(30) DEF Submit, IInv, Accounted
  <2>9. 1 .. executed' = (1 .. executed) \cup {executed + 1}
    BY <2>1, SMTT(30)
  <2>10. Accounted'
    <3>1. Ids(Stream)' = Ids(Stream)
      BY <2>3, Zenon DEF Ids
    <3>2. pc' = "push" /\ refused' = refused /\ reply'.id \notin 1 .. executed
      BY <1>2, <2>1, SMTT(30) DEF Submit
    <3>3. QED
      BY <2>1, <2>8, <2>9, <3>1, <3>2, Zenon DEF Accounted
  <2>11. BatchInv'
    BY <1>2, SameBatcher, SMTT(30) DEF Submit, IInv
  <2>12. QED
    BY <2>2, <2>6, <2>7, <2>10, <2>11, Zenon DEF IInv
<1>3. QED
  BY <1>1, <1>2, SMTT(30)

\* push refuses the reply: the stream stays, the ordinal is accounted for.
LEMMA PushRefusesStep == ASSUME IInv, PushRefuses PROVE IInv'
<1> USE DEF IInv
<1>1. /\ pc = "push" /\ batch = <<>> /\ reply \in Reply /\ reply.id = executed
      /\ pc' = "write" /\ refused' = refused \cup {reply.id}
      /\ executed' = executed
  BY SMTT(30) DEF PushRefuses, Flush, StreamInv
<1>2. TypeOK'
  <2>1. <<>> \in Seq(Reply) /\ reply.id \in 1 .. MaxUrbs
    BY <1>1, SMTT(30) DEF Reply
  <2>2. QED
    BY <2>1, ZenonT(30) DEF PushRefuses, Flush, TypeOK
<1>3. Stream' = Stream
  <2>1. wire \in Seq(Reply) /\ buffer \in Seq(Reply)
    BY SMTT(30) DEF TypeOK
  <2>2. Stream = wire \o <<>> \o buffer /\ Stream' = wire \o buffer \o <<>>
    BY <1>1, SMTT(30) DEF PushRefuses, Flush, Stream
  <2>3. QED
    BY <2>1, <2>2, StreamMoves, SMTT(30)
<1>4. StreamInv'
  BY <1>1, <1>3, ZenonT(30) DEF PushRefuses, Flush, StreamInv
<1>5. InOrder'
  BY <1>3, SMTT(30) DEF InOrder
<1>6. Accounted'
  <2>1. Ids(Stream)' = Ids(Stream)
    BY <1>3, SMTT(30) DEF Ids
  <2>2. /\ Ids(Stream) \cup {reply.id} \cup refused = 1 .. executed
        /\ Ids(Stream) \cap refused = {}
        /\ {reply.id} \cap (Ids(Stream) \cup refused) = {}
    BY <1>1, SMTT(30) DEF Accounted
  <2>3. QED
    BY <1>1, <2>1, <2>2, ZenonT(30) DEF Accounted
<1>7. BatchInv'
  BY EmptiedBatcher, SMTT(30) DEF PushRefuses, Flush
<1>8. QED
  BY <1>2, <1>4, <1>5, <1>6, <1>7, Zenon

\* push inserts the reply: the stream grows by it.
LEMMA PushInsertsStep == ASSUME IInv, PushInserts PROVE IInv'
<1> USE DEF IInv
<1>1. /\ pc = "push" /\ batch = <<>> /\ reply \in Reply /\ reply.id = executed
      /\ UpTo(Stream, reply.id - 1)
      /\ executed' = executed /\ refused' = refused
      /\ wire' = wire /\ reply' = <<>> /\ last_seqnum' = reply.seqnum
  BY DEF PushInserts, StreamInv
<1>2. /\ wire \in Seq(Reply) /\ buffer \in Seq(Reply) /\ bufsize \in Nat
      /\ Len(buffer) \in Nat
      /\ reply.seqnum \in Seqnum /\ reply.size \in Nat
  BY <1>1, BatchAssumption, LenProperties, ZenonT(30) DEF TypeOK, Reply
<1>3. \/ /\ batch' = Append(buffer, reply) /\ buffer' = <<>> /\ pc' = "write"
         /\ bufsize' = 0 /\ batch_start' = "none"
      \/ /\ batch' = <<>> /\ buffer' = Append(buffer, reply) /\ pc' = "read"
         /\ Len(buffer) + 1 < MaxBatch
         /\ bufsize' = bufsize + reply.size
         /\ batch_start' = IF batch_start = "none" THEN "running" ELSE batch_start
  BY <1>1, Zenon DEF PushInserts, Flush
<1>4. TypeOK'
  <2>1. <<>> \in Seq(Reply) /\ Append(buffer, reply) \in Seq(Reply)
    BY <1>1, <1>2, AppendProperties, SMTT(30)
  <2>2. buffer' \in Seq(Reply) /\ batch' \in Seq(Reply) /\ wire' \in Seq(Reply)
    BY <1>1, <1>2, <1>3, <2>1, ZenonT(30)
  <2>3. bufsize' \in Nat
    BY <1>2, <1>3, SMTT(30)
  <2>4. pc' \in {"write", "read"} /\ batch_start' \in {"none", "running", "expired"}
    BY <1>3, Zenon DEF TypeOK
  <2>5. QED
    BY <1>1, <1>2, <2>2, <2>3, <2>4, Zenon DEF TypeOK
<1>5. Stream \in Seq(Reply) /\ Stream' = Append(Stream, reply)
  <2>1. Append(buffer, reply) \in Seq(Reply)
    BY <1>1, <1>2, AppendProperties, Zenon
  <2>2. Stream = wire \o buffer
    BY <1>1, <1>2, StreamMoves, Zenon DEF Stream
  <2>3. Stream' = wire \o Append(buffer, reply)
    <3>1. CASE batch' = Append(buffer, reply) /\ buffer' = <<>>
      BY <1>1, <1>2, <2>1, <3>1, StreamMoves, SMTT(30) DEF Stream
    <3>2. CASE batch' = <<>> /\ buffer' = Append(buffer, reply)
      BY <1>1, <1>2, <2>1, <3>2, StreamMoves, Zenon DEF Stream
    <3>3. QED
      BY <1>3, <3>1, <3>2, Zenon
  <2>4. QED
    BY <1>1, <1>2, <2>2, <2>3, StreamMoves, ZenonT(30)
<1>6. /\ Ascending(Stream')
      /\ UpTo(Stream', executed')
      /\ Ids(Stream') = Ids(Stream) \cup {reply.id}
  BY <1>1, <1>5, AppendYoungest, SMTT(30) DEF InOrder
<1>7. StreamInv' /\ InOrder'
  BY <1>1, <1>3, <1>6, ZenonT(30) DEF StreamInv, InOrder
<1>8. Accounted'
  <2>1. /\ Ids(Stream) \cup {reply.id} \cup refused = 1 .. executed
        /\ Ids(Stream) \cap refused = {}
        /\ {reply.id} \cap (Ids(Stream) \cup refused) = {}
    BY <1>1, Zenon DEF Accounted
  <2>2. QED
    BY <1>1, <1>3, <1>6, <2>1, ZenonT(30) DEF Accounted
<1>9. BatchInv'
  <2>1. CASE buffer' = <<>> /\ bufsize' = 0 /\ batch_start' = "none"
    BY <2>1, EmptiedBatcher, Zenon
  <2>2. CASE /\ buffer' = Append(buffer, reply)
             /\ Len(buffer) + 1 < MaxBatch
             /\ bufsize' = bufsize + reply.size
             /\ batch_start' = IF batch_start = "none" THEN "running" ELSE batch_start
    <3>1. /\ Len(buffer') = Len(buffer) + 1 /\ buffer' # <<>>
          /\ \A i \in 1 .. Len(buffer) : buffer'[i] = buffer[i]
          /\ buffer'[Len(buffer) + 1] = reply
      BY <1>1, <1>2, <2>2, AppendProperties, SMTT(30)
    <3>2. bufsize' <= Capacity
      BY <1>2, <2>2, BatchAssumption, SMTT(30) DEF PushInserts, Refuses, Oversized
    <3>3. last_seqnum' = buffer'[Len(buffer')].seqnum
      BY <1>1, <3>1, ZenonT(30)
    <3>4. batch_start' # "none"
      BY <2>2, SMTT(30)
    <3>5. buffer # <<>> => reply.seqnum = (last_seqnum + 1) % Seqnums
      <4>1. buffer # <<>> => last_seqnum \in Seqnum
        <5> SUFFICES ASSUME buffer # <<>> PROVE last_seqnum \in Seqnum
          BY SMTT(30)
        <5>1. Len(buffer) \in 1 .. Len(buffer)
          BY <1>2, EmptySeq, SMTT(30)
        <5>2. buffer[Len(buffer)] \in Reply
          BY <1>2, <5>1, RepliesOf, Zenon
        <5>3. QED
          BY <5>2, SMTT(30) DEF BatchInv, Reply
      <4>2. NoSeq \notin Seqnum
        BY BatchAssumption, SMTT(30) DEF NoSeq, Seqnum
      <4>3. QED
        BY <4>1, <4>2, ZenonT(30) DEF PushInserts, Refuses, MustFlushFirst
    <3>6. BatchConsecutive'
      <4> SUFFICES ASSUME NEW i \in 1 .. Len(buffer)
                   PROVE  buffer'[i + 1].seqnum = (buffer'[i].seqnum + 1) % Seqnums
        BY <1>2, <3>1, SMTT(30) DEF BatchConsecutive
      <4>1. CASE i = Len(buffer)
        <5>1. buffer # <<>>
          BY <1>2, SMTT(30)
        <5>2. QED
          BY <3>1, <3>5, <4>1, <5>1, ZenonT(30) DEF BatchInv
      <4>2. CASE i \in 1 .. Len(buffer) - 1
        BY <1>2, <3>1, <4>2, SMTT(30) DEF BatchInv, BatchConsecutive
      <4>3. QED
        BY <1>2, <4>1, <4>2, SMTT(30)
    <3>7. QED
      BY <2>2, <3>1, <3>2, <3>3, <3>4, <3>6, Zenon DEF BatchInv, TimedWhileFilled
  <2>3. QED
    BY <1>3, <2>1, <2>2, SMTT(30)
<1>10. QED
  BY <1>4, <1>7, <1>8, <1>9, ZenonT(30)

\* A batch is written, or its write fails.
LEMMA WriteStep == ASSUME IInv, Write PROVE IInv'
<1> USE DEF IInv
<1>1. CASE WriteBatch
  <2>1. wire \in Seq(Reply) /\ batch \in Seq(Reply) /\ buffer = <<>>
    BY <1>1 DEF WriteBatch, TypeOK, StreamInv
  <2>2. wire \o batch \in Seq(Reply) /\ <<>> \in Seq(Reply)
    BY <2>1, ConcatProperties
  <2>3. TypeOK'
    BY <1>1, <2>2 DEF WriteBatch, TypeOK, batcher
  <2>4. Stream' = Stream
    BY <1>1, <2>1, StreamMoves, Zenon DEF WriteBatch, Stream, batcher
  <2>5. StreamInv' /\ InOrder' /\ Accounted'
    BY <1>1, <2>4, Zenon DEF WriteBatch, StreamInv, InOrder, Accounted
  <2>6. QED
    BY <1>1, <2>3, <2>5, SameBatcher, Zenon DEF WriteBatch
<1>2. CASE FailWrite
  <2>1. TypeOK'
    BY <1>2 DEF FailWrite, TypeOK, batcher
  <2>2. Stream' = Stream
    BY <1>2, Zenon DEF FailWrite, Stream, batcher
  <2>3. StreamInv' /\ InOrder' /\ Accounted'
    BY <1>2, <2>2, Zenon DEF FailWrite, StreamInv, InOrder, Accounted, batcher
  <2>4. QED
    BY <1>2, <2>1, <2>3, SameBatcher, Zenon DEF FailWrite
<1>3. QED
  BY <1>1, <1>2, SMTT(30) DEF Write

\* The loop is left, and the rest of the batch written or lost.
LEMMA EndStep == ASSUME IInv, LeaveLoop \/ Drain PROVE IInv'
<1> USE DEF IInv
<1>1. CASE LeaveLoop
  <2>1. TypeOK'
    BY <1>1, Zenon DEF LeaveLoop, TypeOK, batcher
  <2>2. Stream' = Stream
    BY <1>1, Zenon DEF LeaveLoop, Stream, batcher
  <2>3. StreamInv' /\ InOrder' /\ Accounted'
    BY <1>1, <2>2, Zenon DEF LeaveLoop, StreamInv, InOrder, Accounted, batcher
  <2>4. QED
    BY <1>1, <2>1, <2>3, SameBatcher, Zenon DEF LeaveLoop
<1>2. CASE Drain
  <2>1. wire \in Seq(Reply) /\ buffer \in Seq(Reply) /\ batch = <<>> /\ batch' = <<>>
    BY <1>2, Zenon DEF Drain, TypeOK, StreamInv
  <2>2. wire \o buffer \in Seq(Reply) /\ <<>> \in Seq(Reply)
    BY <2>1, ConcatProperties
  <2>3. TypeOK'
    BY <1>2, <2>2, Zenon DEF Drain, TypeOK
  <2>4. Stream = wire \o buffer
    BY <2>1, StreamMoves, Zenon DEF Stream
  <2>5. UpTo(Stream', executed) /\ Ascending(Stream')
    <3>1. CASE wire' = wire \o buffer
      <4>1. Stream' = Stream
        BY <1>2, <2>1, <2>2, <2>4, <3>1, StreamMoves DEF Drain, Stream
      <4>2. QED
        BY <4>1, Zenon DEF StreamInv, InOrder
    <3>2. CASE wire' = wire
      <4>1. Stream' = wire
        BY <1>2, <2>1, <2>2, <3>2, ConcatEmptySeq, Zenon DEF Drain, Stream
      <4>2. /\ Len(wire) \in Nat /\ Len(buffer) \in Nat
            /\ Len(Stream) = Len(wire) + Len(buffer)
            /\ \A i \in 1 .. Len(wire) : i \in 1 .. Len(Stream) /\ Stream[i] = wire[i]
        BY <2>1, <2>4, ConcatProperties, LenProperties
      <4>3. QED
        BY <4>1, <4>2, Zenon DEF StreamInv, InOrder, UpTo, Ascending
    <3>3. QED
      BY <1>2, <3>1, <3>2, Zenon DEF Drain
  <2>6. StreamInv' /\ InOrder' /\ Accounted'
    BY <1>2, <2>5 DEF Drain, StreamInv, InOrder, Accounted
  <2>7. QED
    BY <1>2, <2>3, <2>6, EmptiedBatcher, Zenon DEF Drain
<1>3. QED
  BY <1>1, <1>2, Zenon

\* The invariant is inductive.
LEMMA NextIInv == IInv /\ [Next]_vars => IInv'
<1> SUFFICES ASSUME IInv, [Next]_vars PROVE IInv'
  OBVIOUS
<1>1. CASE TimerExpires \/ \E s \in Seqnum, z \in Sizes : Submit(s, z)
  BY <1>1, EnvironmentStep, Zenon
<1>2. CASE Push
  BY <1>2, PushRefusesStep, PushInsertsStep, Zenon DEF Push
<1>3. CASE Write
  BY <1>3, WriteStep
<1>4. CASE LeaveLoop \/ Drain
  BY <1>4, EndStep
<1>5. CASE UNCHANGED vars
  BY <1>5, Zenon DEF vars, IInv, TypeOK, StreamInv, BatchInv, InOrder, Accounted,
              Stream, BatchConsecutive, TimedWhileFilled
<1>6. QED
  BY <1>1, <1>2, <1>3, <1>4, <1>5, Zenon DEF Next

\* Every state of the loop is in the invariant.
THEOREM Invariance == Spec => []IInv
  BY InitIInv, NextIInv, PTL DEF Spec

\* The variables of the loop have their types.
THEOREM TypeCorrect == Spec => []TypeOK
<1>1. IInv => TypeOK
  BY DEF IInv
<1>2. QED
  BY <1>1, Invariance, PTL

\* Replies leave in the order of execution and none twice, whatever seqnums and
\* sizes the commands have and wherever the batches are cut.
THEOREM RepliesInOrder == Spec => []InOrder
<1>1. IInv => InOrder
  BY Zenon DEF IInv
<1>2. QED
  BY <1>1, Invariance, PTL

\* A batch never exceeds its count and its capacity, is a run of consecutive
\* seqnums, and is timed exactly while it holds a reply.
THEOREM BatchShape == Spec => []BatchWellFormed
<1>1. IInv => BatchWellFormed
  <2> SUFFICES ASSUME IInv PROVE BatchBounded
    BY DEF IInv, BatchInv, BatchWellFormed
  <2>1. Len(buffer) \in Nat
    BY LenProperties, Zenon DEF IInv, TypeOK
  <2>2. QED
    BY <2>1, BatchAssumption DEF IInv, BatchInv, BatchBounded
<1>2. QED
  BY <1>1, Invariance, PTL

\* The reply of an executed URB is in exactly one place until the loop ends:
\* only push's early returns take one off the stream.
THEOREM EveryReplyAccounted == Spec => []Accounted
<1>1. IInv => Accounted
  BY DEF IInv
<1>2. QED
  BY <1>1, Invariance, PTL

-----------------------------------------------------------------------------
(***************************************************************************)
(* UrbBufferPool                                                           *)
(***************************************************************************)
\* The inductive invariant: blank buffers, with the types.
BlankInv == PoolTypeOK /\ BuffersAreBlank

\* Pushing a blank buffer keeps the queue blank and within max_size.
LEMMA PushedBlank ==
  ASSUME BlankInv, PushBack(TRUE)
  PROVE  /\ queue' \in Seq(BOOLEAN) /\ Len(queue') <= MaxSize
         /\ \A i \in 1..Len(queue') : queue'[i]
<1>1. /\ queue \in Seq(BOOLEAN) /\ Len(queue) \in Nat /\ Len(queue) <= MaxSize
      /\ \A i \in 1..Len(queue) : queue[i] = TRUE
  BY DEF BlankInv, PoolTypeOK, BuffersAreBlank
<1>2. CASE Len(queue) < MaxSize
  <2>1. queue' = Append(queue, TRUE)
    BY <1>2, Zenon DEF PushBack
  <2>2. /\ queue' \in Seq(BOOLEAN) /\ Len(queue') = Len(queue) + 1
        /\ \A i \in 1..Len(queue) : queue'[i] = queue[i]
        /\ queue'[Len(queue) + 1] = TRUE
    BY <1>1, <2>1, AppendProperties
  <2>3. \A i \in 1..Len(queue') : i \in 1..Len(queue) \/ i = Len(queue) + 1
    BY <1>1, <2>2
  <2>4. QED
    BY <1>1, <1>2, <2>2, <2>3, PoolAssumption
<1>3. CASE ~(Len(queue) < MaxSize)
  BY <1>1, <1>3, Zenon DEF PushBack
<1>4. QED
  BY <1>2, <1>3, Zenon

\* A step of a task.
LEMMA HolderStep ==
  ASSUME BlankInv, NEW h \in Holder, Acquire(h) \/ Fill(h) \/ Take(h) \/ Return(h)
  PROVE  BlankInv'
<1>1. toAdd' = toAdd
  BY Zenon DEF Acquire, Fill, Take, Return
<1>2. lent' \in [Holder -> {"none", "blank", "used"}]
  <2>1. lent \in [Holder -> {"none", "blank", "used"}]
    BY DEF BlankInv, PoolTypeOK, BuffersAreBlank
  <2>2. queue # <<>> => Head(queue) = TRUE
    <3>1. queue \in Seq(BOOLEAN) /\ \A i \in 1..Len(queue) : queue[i] = TRUE
      BY Zenon DEF BlankInv, PoolTypeOK, BuffersAreBlank
    <3>2. queue # <<>> => 1 \in 1..Len(queue) /\ Head(queue) = queue[1]
      BY <3>1, EmptySeq, HeadTailProperties
    <3>3. QED
      BY <3>1, <3>2, ZenonT(30)
  <2>3. QED
    BY <2>1, <2>2, ZenonT(30) DEF Acquire, Fill, Take, Return
<1>3. /\ queue' \in Seq(BOOLEAN) /\ Len(queue') <= MaxSize
      /\ \A i \in 1..Len(queue') : queue'[i]
  <2>1. CASE queue' = queue
    BY <2>1, Zenon DEF BlankInv, PoolTypeOK, BuffersAreBlank
  <2>2. CASE queue # <<>> /\ queue' = Tail(queue)
    <3>1. /\ queue \in Seq(BOOLEAN) /\ Len(queue) \in Nat /\ Len(queue) <= MaxSize
          /\ \A i \in 1..Len(queue) : queue[i]
      BY DEF BlankInv, PoolTypeOK, BuffersAreBlank
    <3>2. /\ queue' \in Seq(BOOLEAN) /\ Len(queue') = Len(queue) - 1
          /\ \A i \in 1..Len(queue') : queue'[i] = queue[i + 1]
      BY <2>2, <3>1, HeadTailProperties, Zenon
    <3>3. \A i \in 1..Len(queue') : i + 1 \in 1..Len(queue)
      BY <3>1, <3>2
    <3>4. QED
      BY <3>1, <3>2, <3>3, PoolAssumption
  <2>3. CASE PushBack(TRUE)
    BY <2>3, PushedBlank, Zenon
  <2>4. QED
    BY <2>1, <2>2, <2>3, ZenonT(30) DEF Acquire, Fill, Take, Return
<1>4. QED
  BY <1>1, <1>2, <1>3 DEF BlankInv, PoolTypeOK, BuffersAreBlank

\* A step of record_urb.
LEMMA GrowthSteps ==
  ASSUME BlankInv, Grow \/ \E desired \in MinSize..MaxSize : RecordUrb(desired)
  PROVE  BlankInv'
<1>1. lent' = lent
  BY Zenon DEF Grow, RecordUrb
<1>2. toAdd' \in 0..MaxSize
  <2>1. toAdd \in 0..MaxSize /\ Len(queue) \in Nat
    BY DEF BlankInv, PoolTypeOK
  <2>2. CASE Grow
    BY <2>1, <2>2, PoolAssumption DEF Grow
  <2>3. ASSUME NEW desired \in MinSize..MaxSize, RecordUrb(desired) PROVE toAdd' \in 0..MaxSize
    <3>1. desired \in Nat /\ desired <= MaxSize /\ desired > Len(queue)
      BY <2>3, PoolAssumption DEF RecordUrb
    <3>2. QED
      BY <2>1, <2>3, <3>1, PoolAssumption DEF RecordUrb
  <2>4. QED
    BY <2>2, <2>3, Zenon
<1>3. /\ queue' \in Seq(BOOLEAN) /\ Len(queue') <= MaxSize
      /\ \A i \in 1..Len(queue') : queue'[i]
  <2>1. CASE queue' = queue
    BY <2>1 DEF BlankInv, PoolTypeOK, BuffersAreBlank
  <2>2. CASE PushBack(TRUE)
    BY <2>2, PushedBlank, Zenon
  <2>3. QED
    BY <2>1, <2>2, Zenon DEF Grow, RecordUrb
<1>4. QED
  BY <1>1, <1>2, <1>3 DEF BlankInv, PoolTypeOK, BuffersAreBlank

\* The invariant of the pool holds of every state.
THEOREM PoolInvariance == PoolSpec => []BlankInv
<1>1. PoolInit => BlankInv
  <2> SUFFICES ASSUME PoolInit PROVE BlankInv
    OBVIOUS
  <2>1. /\ queue \in Seq(BOOLEAN) /\ Len(queue) = MinSize
        /\ \A i \in 1..MinSize : queue[i] = TRUE
    BY PoolAssumption DEF PoolInit
  <2>2. QED
    BY <2>1, PoolAssumption DEF PoolInit, BlankInv, PoolTypeOK, BuffersAreBlank
<1>2. BlankInv /\ UNCHANGED poolVars => BlankInv'
  BY DEF poolVars, BlankInv, PoolTypeOK, BuffersAreBlank
<1>3. BlankInv /\ [PoolNext]_poolVars => BlankInv'
  BY <1>2, HolderStep, GrowthSteps DEF PoolNext
<1>4. QED
  BY <1>1, <1>3, PTL DEF PoolSpec

-----------------------------------------------------------------------------
(***************************************************************************)
(* VhciPorts                                                               *)
(***************************************************************************)
\* A call that is about to attach has chosen a port that was free when it looked,
\* unless none was.
ChoiceWasFree ==
    \A a \in Attempt : vpc[a] \in {"attach", "failed"} =>
        \/ \A p \in Port : sighted[a][p] # Vacant
        \/ sighted[a][devid[a]] = Vacant

\* The inductive invariant.
VInv == VhciTypeOK /\ ChoiceWasFree /\ DevidIsOwn /\ RefusalHasCause

\* A set of ports that is not empty has a first one.
LEMMA LeastNat ==
  ASSUME NEW T \in SUBSET Nat, T # {}
  PROVE  \E x \in T : \A y \in T : x <= y
<1> DEFINE R == {ss \in Nat \X Nat : ss[1] < ss[2]}
<1>1. IsWellFoundedOn(R, Nat)
  BY NatLessThanWellFounded DEF OpToRel
<1>2. PICK x \in T : \A y \in T : ~(<<y, x>> \in R)
  BY <1>1, WFMin, Zenon
<1>3. ASSUME NEW y \in T PROVE x <= y
  <2>1. y \in Nat /\ x \in Nat
    OBVIOUS
  <2>2. y < x => <<y, x>> \in R
    BY <2>1, Zenon
  <2>3. QED
    BY <1>2, <2>1, <2>2
<1>4. QED
  BY <1>3

\* The search returns a port, a free one if there is one.
LEMMA FirstFreeFacts ==
  ASSUME NEW t
  PROVE  /\ FirstFreePort(t) \in Port
         /\ (\E p \in Port : t[p] = Vacant) => t[FirstFreePort(t)] = Vacant
<1> DEFINE free == {p \in Port : t[p] = Vacant}
<1>1. free \subseteq Port /\ Port \subseteq Nat /\ 0 \in Port
  BY VhciAssumption DEF Port
<1>2. FirstFreePort(t) = IF free = {} THEN 0 ELSE Min(free)
  BY Zenon DEF FirstFreePort
<1>3. CASE free = {}
  BY <1>1, <1>2, <1>3, Zenon
<1>4. CASE free # {}
  <2>1. \E x \in free : \A y \in free : x <= y
    <3> HIDE DEF free
    <3>1. QED
      BY <1>1, <1>4, LeastNat, Zenon
  <2>2. Min(free) \in free
    BY <2>1, Zenon DEF Min
  <2>3. QED
    BY <1>1, <1>2, <1>4, <2>2, Zenon
<1>5. QED
  BY <1>3, <1>4, Zenon

\* The invariant of the ports holds of every state.
THEOREM VhciInvariance == VhciSpec => []VInv
<1>1. VhciInit => VInv
  BY VhciAssumption DEF VhciInit, VInv, VhciTypeOK, ChoiceWasFree, DevidIsOwn,
                        RefusalHasCause, Port
<1>2. VInv /\ UNCHANGED vhciVars => VInv'
  BY ZenonT(30) DEF vhciVars, VInv, VhciTypeOK, ChoiceWasFree, DevidIsOwn, RefusalHasCause
<1>3. ASSUME VInv, NEW a \in Attempt, ScanPorts(a) PROVE VInv'
  <2> USE <1>3 DEF VInv, ScanPorts
  <2> DEFINE p == FirstFreePort(table)
  <2>1. p \in Port /\ ((\E x \in Port : table[x] = Vacant) => table[p] = Vacant)
    BY FirstFreeFacts, Zenon
  <2> HIDE DEF p
  <2>2. devid' = [devid EXCEPT ![a] = p]
    BY Zenon DEF p
  <2>3. VhciTypeOK'
    BY <2>1, <2>2 DEF VhciTypeOK
  <2>4. ChoiceWasFree'
    BY <2>1, <2>2 DEF VhciTypeOK, ChoiceWasFree
  <2>5. DevidIsOwn' /\ RefusalHasCause'
    BY <2>2 DEF VhciTypeOK, DevidIsOwn, RefusalHasCause
  <2>6. QED
    BY <2>3, <2>4, <2>5, Zenon
<1>4. ASSUME VInv, NEW a \in Attempt, AttachPort(a) PROVE VInv'
  <2> USE <1>4 DEF VInv, AttachPort
  <2>1. VhciTypeOK'
    BY DEF VhciTypeOK
  <2>2. ChoiceWasFree'
    BY Zenon DEF VhciTypeOK, ChoiceWasFree
  <2>3. DevidIsOwn'
    BY VhciAssumption DEF VhciTypeOK, DevidIsOwn
  <2>4. RefusalHasCause'
    BY VhciAssumption, ZenonT(30) DEF VhciTypeOK, ChoiceWasFree, RefusalHasCause
  <2>5. QED
    BY <2>1, <2>2, <2>3, <2>4, Zenon
<1>5. VInv /\ [VhciNext]_vhciVars => VInv'
  BY <1>2, <1>3, <1>4 DEF VhciNext
<1>6. QED
  BY <1>1, <1>5, PTL DEF VhciSpec

-----------------------------------------------------------------------------
(***************************************************************************)
(* ConfigStore                                                             *)
(*                                                                         *)
(* While requests neither overlap nor fail, one of them is under way at    *)
(* most, so what fs::write has emptied it fills whole, and the memory then *)
(* follows.  And whatever is in a request's copy, or whole in the file, has *)
(* the id of the memory, as only a start without a readable file makes     *)
(* another.                                                                *)
(***************************************************************************)
\* A server that is down serves nothing.
DownIsIdle == ~up => \A p \in Page : put[p] = "none"

\* Requests that do not overlap: one at most, and the file is as it left it.
OneByOne ==
    since # "mixed" =>
        \A p \in Page : put[p] # "none" =>
            /\ \A q \in Page : put[q] # "none" => p = q
            /\ put[p] = "write" => file = "empty"
            /\ put[p] = "commit" => file = "whole" /\ disk = new[p]

\* Copies have the id of the memory.
IdIsCopied ==
    /\ \A p \in Page : put[p] # "none" => new[p].id = mem.id
    /\ file = "whole" => disk.id = mem.id

\* The inductive invariant.
CInv == ConfigTypeOK /\ DownIsIdle /\ OneByOne /\ IdIsCopied /\ FileIsMemory

USE ConfigAssumption DEF Config

\* The first start.
LEMMA InitCInv == ConfigInit => CInv
  BY DEF ConfigInit, CInv, ConfigTypeOK, DownIsIdle, OneByOne, IdIsCopied, FileIsMemory

\* The process ends.
LEMMA CrashStep == ASSUME CInv, Crash PROVE CInv'
  BY Zenon DEF Crash, CInv, ConfigTypeOK, DownIsIdle, OneByOne, IdIsCopied, FileIsMemory

\* It starts again.
LEMMA BootStep == ASSUME CInv, Boot PROVE CInv'
<1> USE DEF Boot, CInv
<1>1. ConfigTypeOK'
  BY DEF ConfigTypeOK
<1>2. DownIsIdle' /\ OneByOne' /\ FileIsMemory'
  BY Zenon DEF ConfigTypeOK, DownIsIdle, OneByOne, FileIsMemory
<1>3. IdIsCopied'
  BY Zenon DEF ConfigTypeOK, DownIsIdle, IdIsCopied
<1>4. QED
  BY <1>1, <1>2, <1>3

\* A request is read.
LEMMA ReadStep ==
  ASSUME CInv, NEW p \in Page, NEW port, PutRead(p, port)
  PROVE  CInv'
<1> USE DEF PutRead, CInv
<1>1. Updated(port) \in Config /\ Updated(port).id = mem.id
  BY Zenon DEF ConfigTypeOK, Updated, ValidatePort
<1>2. ConfigTypeOK'
  BY <1>1, Zenon DEF ConfigTypeOK
<1>3. DownIsIdle' /\ IdIsCopied'
  BY <1>1, Zenon DEF ConfigTypeOK, DownIsIdle, IdIsCopied
<1>4. OneByOne'
  BY DEF ConfigTypeOK, OneByOne
<1>5. FileIsMemory'
  BY Zenon DEF ConfigTypeOK, FileIsMemory
<1>6. QED
  BY <1>2, <1>3, <1>4, <1>5, Zenon

\* The file is emptied, and filled.
LEMMA PersistStep ==
  ASSUME CInv, NEW p \in Page, PersistOpen(p) \/ PersistWrite(p)
  PROVE  CInv'
<1> USE DEF PersistOpen, PersistWrite, CInv
<1>1. ConfigTypeOK'
  BY DEF ConfigTypeOK
<1>2. DownIsIdle' /\ IdIsCopied'
  BY Zenon DEF ConfigTypeOK, DownIsIdle, IdIsCopied
<1>3. OneByOne'
  BY DEF ConfigTypeOK, OneByOne
<1>4. FileIsMemory'
  BY Zenon DEF ConfigTypeOK, FileIsMemory
<1>5. QED
  BY <1>1, <1>2, <1>3, <1>4, Zenon

\* The request fails, and is over.
LEMMA FailStep ==
  ASSUME CInv, NEW p \in Page, PersistFails(p)
  PROVE  CInv'
<1> USE DEF PersistFails, CInv
<1>1. ConfigTypeOK'
  BY Zenon DEF ConfigTypeOK
<1>2. DownIsIdle' /\ IdIsCopied' /\ OneByOne' /\ FileIsMemory'
  BY Zenon DEF ConfigTypeOK, DownIsIdle, IdIsCopied, OneByOne, FileIsMemory
<1>3. QED
  BY <1>1, <1>2, Zenon

\* The memory follows the file.
LEMMA CommitStep ==
  ASSUME CInv, NEW p \in Page, PutCommit(p)
  PROVE  CInv'
<1> USE DEF PutCommit, CInv
<1>1. ConfigTypeOK'
  BY Zenon DEF ConfigTypeOK
<1>2. DownIsIdle' /\ IdIsCopied'
  BY Zenon DEF ConfigTypeOK, DownIsIdle, IdIsCopied
<1>3. OneByOne'
  BY Zenon DEF ConfigTypeOK, OneByOne
<1>4. FileIsMemory'
  BY DEF ConfigTypeOK, OneByOne, FileIsMemory
<1>5. QED
  BY <1>1, <1>2, <1>3, <1>4, Zenon

\* Every step keeps the invariant.
LEMMA NextCInv == CInv /\ [ConfigNext]_configVars => CInv'
<1> SUFFICES ASSUME CInv, [ConfigNext]_configVars PROVE CInv'
  BY Zenon
<1>1. CASE UNCHANGED configVars
  BY <1>1, Zenon DEF configVars, CInv, ConfigTypeOK, DownIsIdle, OneByOne, IdIsCopied, FileIsMemory
<1>2. CASE ConfigNext
  BY <1>2, CrashStep, BootStep, ReadStep, PersistStep, FailStep, CommitStep, Zenon
  DEF ConfigNext, HandleSave, OtherClient
<1>3. QED
  BY <1>1, <1>2, Zenon

\* The invariant holds of every state of the configuration (api.rs, server.rs).
THEOREM ConfigInvariance == ConfigSpec => []CInv
  BY InitCInv, NextCInv, PTL DEF ConfigSpec

\* No port outside 1..PortMax is ever in the memory, in a request's copy or in the
\* file, whatever numbers put_config is sent.
THEOREM ConfigTypeCorrect == ConfigSpec => []ConfigTypeOK
<1>1. CInv => ConfigTypeOK
  BY DEF CInv
<1>2. QED
  BY <1>1, ConfigInvariance, PTL

\* Between requests that neither overlapped nor failed, server.toml holds what the
\* server uses.
THEOREM FileFollowsMemory == ConfigSpec => []FileIsMemory
<1>1. CInv => FileIsMemory
  BY DEF CInv
<1>2. QED
  BY <1>1, ConfigInvariance, PTL

\* Neither put_config nor a start with a readable server.toml changes the server_id,
\* even where requests overlap, fail, or are cut off by a crash.
THEOREM IdIsKept == ConfigSpec => IdSurvives
<1>1. CInv /\ [ConfigNext]_configVars
         => [file = "whole" \/ up => mem'.id = mem.id]_configVars
  BY DEF CInv, ConfigTypeOK, DownIsIdle, IdIsCopied, ConfigNext, Crash, Boot, HandleSave,
     OtherClient, PutRead, PersistOpen, PersistWrite, PersistFails, PutCommit, configVars
<1>2. QED
  BY <1>1, ConfigInvariance, PTL DEF ConfigSpec, IdSurvives

HIDE ConfigAssumption DEF Config

-----------------------------------------------------------------------------
(***************************************************************************)
(* TokenBucket                                                             *)
(***************************************************************************)
\* What has passed or may pass at once was in the bucket at the start, came with the
\* clock up to the last refill, or was slept for up to wake: the time of a sleep counts
\* in both of the latter.
Credit == passed + tokens <= MaxTokens + Rate * last_refill + Rate * wake

\* Tokens come and go in ticks' worth.
WholeTicks == \E k \in Nat : tokens = k * Rate

\* The inductive invariant.
RateInv == BucketTypeOK /\ last_refill <= wake /\ Credit /\ WholeTicks

\* A deficit is slept for exactly.
LEMMA ExactDivision == ASSUME NEW m \in Nat PROVE (m * Rate) \div Rate = m
  BY BucketAssumption

\* More ticks are worth more bytes.
LEMMA TicksWorth == ASSUME NEW k \in Nat, NEW n \in Nat, k < n PROVE k * Rate < n * Rate
<1>1. n - k \in Nat /\ n - k >= 1 /\ Rate \in Nat /\ Rate >= 1
  BY BucketAssumption
<1>2. n * Rate = k * Rate + (n - k) * Rate
  BY <1>1
<1>3. (n - k) * Rate >= 1 /\ (n - k) * Rate \in Nat /\ k * Rate \in Nat
  BY <1>1
<1>4. QED
  BY <1>2, <1>3

\* refill adds the time since the last one at most, and stops at a full bucket.
LEMMA RefilledFacts ==
  ASSUME RateInv
  PROVE  /\ Refilled \in 0..MaxTokens
         /\ Refilled <= tokens + Rate * now - Rate * last_refill
         /\ \E k \in Nat : Refilled = k * Rate
<1>1. /\ now \in Nat /\ last_refill \in Nat /\ last_refill <= now /\ tokens \in Nat
      /\ tokens <= MaxTokens /\ MaxTokens \in Nat /\ Rate \in Nat
  BY BucketAssumption DEF RateInv, BucketTypeOK, MaxTokens
<1>2. PICK j \in Nat : tokens = j * Rate
  BY DEF RateInv, WholeTicks
<1> DEFINE gap == now - last_refill
           more == tokens + gap * Rate
<1>3. gap \in Nat /\ gap * Rate \in Nat /\ gap * Rate = Rate * now - Rate * last_refill
  BY <1>1
<1>4. more = (j + gap) * Rate /\ j + gap \in Nat
  BY <1>1, <1>2, <1>3
<1>5. MaxTokens = Second * Rate /\ Second \in Nat
  BY BucketAssumption DEF MaxTokens
<1>6. Refilled = IF more < MaxTokens THEN more ELSE MaxTokens
  BY Zenon DEF Refilled
<1>7. more \in Nat /\ more = tokens + Rate * now - Rate * last_refill
  BY <1>1, <1>3
<1> HIDE DEF more, gap
<1>8. Refilled \in 0..MaxTokens /\ Refilled <= more
  BY <1>1, <1>6, <1>7
<1>9. \E k \in Nat : Refilled = k * Rate
  BY <1>4, <1>5, <1>6, Zenon
<1>10. QED
  BY <1>7, <1>8, <1>9, Zenon

\* A call of throttle.
LEMMA ThrottleStep == ASSUME RateInv, NEW n \in Amounts, Throttle(n * Rate) PROVE RateInv'
<1> DEFINE amount == n * Rate
           full == Refilled
<1>1. /\ now \in Nat /\ now <= MaxTime /\ MaxTime \in Nat /\ last_refill \in Nat
      /\ last_refill <= now /\ tokens \in Nat /\ wake \in Nat /\ passed \in Nat
      /\ MaxTokens \in Nat /\ Rate \in Nat \ {0} /\ n \in Nat /\ amount \in Nat
  BY BucketAssumption DEF RateInv, BucketTypeOK, MaxTokens
<1>2. /\ now >= wake /\ last_refill' = now /\ passed' = passed + amount /\ now' = now
      /\ IF full >= amount THEN tokens' = full - amount /\ wake' = now
         ELSE tokens' = 0 /\ wake' = now + (amount - full) \div Rate
  BY Zenon DEF Throttle, Consume
<1>3. /\ full \in Nat /\ full <= MaxTokens
      /\ full <= tokens + Rate * now - Rate * last_refill
  BY <1>1, RefilledFacts
<1>4. PICK k \in Nat : full = k * Rate
  BY RefilledFacts, Zenon
<1> HIDE DEF full
<1>5. /\ Rate * now \in Nat /\ Rate * last_refill \in Nat /\ Rate * wake \in Nat
      /\ Rate * wake <= Rate * now
  BY <1>1, <1>2
<1>6. passed + full <= MaxTokens + Rate * wake + Rate * now
  BY <1>1, <1>3, <1>5 DEF RateInv, Credit
<1>7. CASE full >= amount
  <2>1. tokens' = full - amount /\ wake' = now
    BY <1>2, <1>7, Zenon
  <2>3. k >= n
    <3>1. k < n => full < amount
      BY <1>1, <1>4, TicksWorth, Zenon
    <3>2. QED
      BY <1>1, <1>3, <1>7, <3>1
  <2>4. tokens' = (k - n) * Rate /\ k - n \in Nat
    BY <1>1, <1>4, <2>1, <2>3
  <2>5. Credit'
    BY <1>1, <1>2, <1>3, <1>5, <1>6, <2>1 DEF Credit, MaxTokens
  <2>6. WholeTicks'
    BY <2>4, Zenon DEF WholeTicks
  <2>7. tokens' \in 0..MaxTokens /\ MaxTokens' = MaxTokens /\ passed' \in Nat
    <3>1. tokens' \in 0..MaxTokens
      BY <1>1, <1>3, <1>7, <2>1
    <3>2. QED
      BY <1>1, <1>2, <3>1 DEF MaxTokens
  <2>8. QED
    BY <1>1, <1>2, <2>1, <2>5, <2>6, <2>7 DEF RateInv, BucketTypeOK
<1>8. CASE ~(full >= amount)
  <2>1. n > k
    BY <1>1, <1>4, <1>8
  <2>2. n - k \in Nat /\ amount - full = (n - k) * Rate
    BY <1>1, <1>4, <2>1
  <2>3. (amount - full) \div Rate = n - k
    BY <2>2, ExactDivision, Zenon
  <2>4. tokens' = 0 /\ wake' = now + (n - k) /\ wake' \in Nat
    BY <1>1, <1>2, <1>8, <2>2, <2>3
  <2>5. Rate * wake' = Rate * now + amount - full
    BY <1>1, <2>2, <2>4
  <2>6. Credit'
    <3>1. MaxTokens' = MaxTokens
      BY Zenon DEF MaxTokens
    <3>2. QED
      BY <1>1, <1>2, <1>3, <1>5, <1>6, <2>4, <2>5, <3>1 DEF Credit
  <2>7. tokens' = 0 * Rate
    BY <1>1, <2>4
  <2>8. WholeTicks'
    BY <2>7, Zenon DEF WholeTicks
  <2>9. MaxTokens' = MaxTokens /\ passed' \in Nat
    BY <1>1, <1>2 DEF MaxTokens
  <2>10. QED
    BY <1>1, <1>2, <2>2, <2>4, <2>6, <2>8, <2>9 DEF RateInv, BucketTypeOK
<1>9. QED
  BY <1>7, <1>8, Zenon

\* The invariant of the bucket holds of every state.
THEOREM BucketInvariance == BucketSpec => []RateInv
<1>1. BucketInit => RateInv
  <2> SUFFICES ASSUME BucketInit PROVE RateInv
    OBVIOUS
  <2>1. MaxTokens \in Nat /\ MaxTokens = Second * Rate /\ Second \in Nat /\ Rate * 0 = 0
    BY BucketAssumption DEF MaxTokens
  <2>2. QED
    BY <2>1, BucketAssumption DEF BucketInit, RateInv, BucketTypeOK, Credit, WholeTicks
<1>2. RateInv /\ UNCHANGED bucketVars => RateInv'
  BY Zenon DEF bucketVars, RateInv, BucketTypeOK, Credit, WholeTicks, MaxTokens
<1>3. RateInv /\ Tick => RateInv'
  BY BucketAssumption DEF Tick, RateInv, BucketTypeOK, Credit, WholeTicks, MaxTokens
<1>4. RateInv /\ [BucketNext]_bucketVars => RateInv'
  BY <1>2, <1>3, ThrottleStep, Zenon DEF BucketNext
<1>5. QED
  BY <1>1, <1>4, PTL DEF BucketSpec

\* A caller that may write has been let pass a full bucket and twice the rate at most.
LEMMA RateFollows == RateInv => RateIsBounded
<1> SUFFICES ASSUME RateInv, now >= wake PROVE passed <= MaxTokens + 2 * Rate * now
  BY Zenon DEF RateIsBounded
<1>1. /\ now \in Nat /\ last_refill \in Nat /\ last_refill <= now /\ tokens \in Nat
      /\ wake \in Nat /\ passed \in Nat /\ MaxTokens \in Nat /\ Rate \in Nat
  BY BucketAssumption DEF RateInv, BucketTypeOK, MaxTokens
<1>2. Rate * last_refill <= Rate * now /\ Rate * wake <= Rate * now
  BY <1>1
<1>3. /\ Rate * last_refill \in Nat /\ Rate * wake \in Nat /\ Rate * now \in Nat
      /\ 2 * Rate * now = Rate * now + Rate * now
  BY <1>1
<1>4. QED
  BY <1>1, <1>2, <1>3 DEF RateInv, Credit

-----------------------------------------------------------------------------
(***************************************************************************)
(* All of them                                                             *)
(***************************************************************************)
\* The variables of the parts keep their types.
THEOREM PartsTypes == HostSpec => []PartsTypeOK
<1>1. IInv /\ CInv /\ VInv /\ BlankInv /\ RateInv => PartsTypeOK
  BY DEF IInv, CInv, VInv, BlankInv, RateInv, PartsTypeOK
<1>2. QED
  BY <1>1, Invariance, ConfigInvariance, VhciInvariance, PoolInvariance, BucketInvariance, PTL
     DEF HostSpec

\* The limits hold for any sizes and rates: the pool's size and the state of its
\* buffers, and twice the rate for the bytes a bucket lets pass.
THEOREM TheLimitsHold == HostSpec => []LimitsHold
<1>1. BlankInv /\ RateInv => LimitsHold
  BY RateFollows DEF BlankInv, LimitsHold
<1>2. QED
  BY <1>1, PoolInvariance, BucketInvariance, PTL DEF HostSpec

\* For any number of ports and of imports: an import that attached has a port of its
\* own, and one that failed saw no port or lost its port to another (vhci_linux.rs).
THEOREM EveryPortIsOwn == HostSpec => []PortsAreOwn
<1>1. VInv => PortsAreOwn
  BY DEF VInv, PortsAreOwn
<1>2. QED
  BY <1>1, VhciInvariance, PTL DEF HostSpec

=============================================================================
