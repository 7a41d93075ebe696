----------------------------- MODULE UrbBatcher -----------------------------
(***************************************************************************)
(* The reply path of one URB loop: UrbBatcher (batcher.rs) as              *)
(* handle_urb_loop (server.rs) drives it.  Each CMD_SUBMIT is executed,    *)
(* its reply is pushed into the batch, and the batch is flushed to the     *)
(* wire when push returns true and once more when the loop is left.        *)
(*                                                                         *)
(* A reply is its ordinal (the order of execution), the seqnum of its      *)
(* command and its size; a seqnum wraps at Seqnums (2^32 in the code), and *)
(* a size is counted in units of which a batch holds Capacity.  A client   *)
(* may leave gaps in its seqnums: an unlink request takes one too.         *)
(***************************************************************************)
EXTENDS Integers, Sequences

CONSTANTS MaxBatch,   \* max_batch, DEFAULT_BATCH_SIZE
          Capacity,   \* MAX_BATCH_CAPACITY
          Sizes,      \* sizes a serialised reply can have
          Seqnums,    \* number of seqnums
          MaxUrbs     \* bound: commands the client sends

ASSUME BatchAssumption ==
    /\ MaxBatch \in Nat \ {0}
    /\ Capacity \in Nat
    /\ Sizes \subseteq Nat \ {0}
    /\ Seqnums \in Nat \ {0}
    /\ MaxUrbs \in Nat

Seqnum == 0 .. Seqnums - 1
NoSeq == -1
Reply == [id : 1 .. MaxUrbs, seqnum : Seqnum, size : Sizes]

VARIABLES
    pc,          \* "read", "push", "write", "drain", "closed"
    executed,    \* number of URBs executed so far
    reply,       \* the reply push is about to be given
    buffer,      \* the replies in the batch (its length is `count`)
    bufsize,     \* buffer.len() in bytes
    batch_start, \* "none", "running", or "expired" once the timeout is over
    last_seqnum, \* seqnum of the last reply inserted, NoSeq at first
    batch,       \* what flush returned, being written
    wire,        \* the replies written to the stream
    refused      \* ordinals push has not inserted

vars == <<pc, executed, reply, buffer, bufsize, batch_start, last_seqnum,
          batch, wire, refused>>
batcher == <<buffer, bufsize, batch_start, last_seqnum>>

TypeOK ==
    /\ pc \in {"read", "push", "write", "drain", "closed"}
    /\ executed \in 0 .. MaxUrbs
    /\ reply \in Reply \cup {<<>>}
    /\ buffer \in Seq(Reply)
    /\ bufsize \in Nat
    /\ batch_start \in {"none", "running", "expired"}
    /\ last_seqnum \in Seqnum \cup {NoSeq}
    /\ batch \in Seq(Reply)
    /\ wire \in Seq(Reply)
    /\ refused \subseteq 1 .. MaxUrbs

Init ==
    /\ pc = "read"
    /\ executed = 0
    /\ reply = <<>>
    /\ buffer = <<>>
    /\ bufsize = 0
    /\ batch_start = "none"
    /\ last_seqnum = NoSeq
    /\ batch = <<>>
    /\ wire = <<>>
    /\ refused = {}

\* Time passes: start.elapsed() >= timeout.
TimerExpires ==
    /\ batch_start = "running"
    /\ batch_start' = "expired"
    /\ UNCHANGED <<pc, executed, reply, buffer, bufsize, last_seqnum, batch,
                   wire, refused>>

\* A CMD_SUBMIT is read and submit_urb executes it; the reply has size z.
Submit(s, z) ==
    /\ pc = "read"
    /\ executed < MaxUrbs
    /\ executed' = executed + 1
    /\ reply' = [id |-> executed + 1, seqnum |-> s, size |-> z]
    /\ pc' = "push"
    /\ UNCHANGED <<batcher, batch, wire, refused>>

\* Mutant: the seqnum is not compared.
MutMustFlushFirst(r) ==
    /\ buffer # <<>>
    /\ \/ Len(buffer) >= MaxBatch
       \/ batch_start = "expired"

\* The early returns of push: nothing is inserted, and push returns true.
MustFlushFirst(r) ==
    /\ buffer # <<>>
    /\ \/ last_seqnum # NoSeq /\ r.seqnum # (last_seqnum + 1) % Seqnums
       \/ Len(buffer) >= MaxBatch
       \/ batch_start = "expired"

\* Mutant: the capacity check leaves out the new reply.
MutOversized(r) == bufsize > Capacity

Oversized(r) == bufsize + r.size > Capacity

Refuses(r) == MustFlushFirst(r) \/ Oversized(r)

\* Mutant: the start of the batch is kept.
MutFlushKeepsStart(content) ==
    /\ batch' = content
    /\ buffer' = <<>>
    /\ bufsize' = 0
    /\ batch_start' = batch_start
    /\ pc' = "write"

\* Mutant: the buffer is cleared before it is handed over.
MutFlushClears(content) ==
    /\ batch' = <<>>
    /\ buffer' = <<>>
    /\ bufsize' = 0
    /\ batch_start' = "none"
    /\ pc' = "write"

\* flush: the buffer is handed over and the batch starts anew; last_seqnum
\* stays.  The caller goes on to write what it got.
Flush(content) ==
    /\ batch' = content
    /\ buffer' = <<>>
    /\ bufsize' = 0
    /\ batch_start' = "none"
    /\ pc' = "write"

\* Mutant: the refused reply is written, ahead of the batch it must follow.
MutPushRefuses ==
    /\ pc = "push"
    /\ Refuses(reply)
    /\ Flush(<<reply>> \o buffer)
    /\ reply' = <<>>
    /\ UNCHANGED <<executed, last_seqnum, wire, refused>>

\* push returns true without inserting; the caller flushes and goes on.
PushRefuses ==
    /\ pc = "push"
    /\ Refuses(reply)
    /\ Flush(buffer)
    /\ refused' = refused \cup {reply.id}
    /\ reply' = <<>>
    /\ UNCHANGED <<executed, last_seqnum, wire>>

\* Mutant: the seqnum to expect next is stored, without its wrap-around.
MutPushInserts ==
    /\ pc = "push"
    /\ ~Refuses(reply)
    /\ last_seqnum' = reply.seqnum + 1
    /\ reply' = <<>>
    /\ Flush(Append(buffer, reply))
    /\ UNCHANGED <<executed, wire, refused>>

\* push inserts the reply, and returns true when the batch is now full.
PushInserts ==
    /\ pc = "push"
    /\ ~Refuses(reply)
    /\ last_seqnum' = reply.seqnum
    /\ reply' = <<>>
    /\ \/ /\ Len(buffer) + 1 >= MaxBatch
          /\ Flush(Append(buffer, reply))
       \/ /\ Len(buffer) + 1 < MaxBatch
          /\ buffer' = Append(buffer, reply)
          /\ bufsize' = bufsize + reply.size
          /\ batch_start' = IF batch_start = "none" THEN "running" ELSE batch_start
          /\ pc' = "read"
          /\ UNCHANGED batch
    /\ UNCHANGED <<executed, wire, refused>>

\* wire.write_message(&batch).await succeeds.
WriteBatch ==
    /\ pc = "write"
    /\ wire' = wire \o batch
    /\ batch' = <<>>
    /\ pc' = "read"
    /\ UNCHANGED <<executed, reply, batcher, refused>>

\* The write fails: `?` leaves the task, and nothing more is written.
FailWrite ==
    /\ pc = "write"
    /\ pc' = "closed"
    /\ UNCHANGED <<executed, reply, batcher, batch, wire, refused>>

\* read_message fails: the loop is left.
LeaveLoop ==
    /\ pc = "read"
    /\ pc' = "drain"
    /\ UNCHANGED <<executed, reply, batcher, batch, wire, refused>>

\* The rest is flushed after the loop; a failing write is ignored.
Drain ==
    /\ pc = "drain"
    /\ \/ wire' = wire \o buffer
       \/ UNCHANGED wire
    /\ buffer' = <<>>
    /\ bufsize' = 0
    /\ batch_start' = "none"
    /\ pc' = "closed"
    /\ UNCHANGED <<executed, reply, last_seqnum, batch, refused>>

Push == PushRefuses \/ PushInserts
Write == WriteBatch \/ FailWrite

Next ==
    \/ TimerExpires
    \/ \E s \in Seqnum, z \in Sizes : Submit(s, z)
    \/ Push \/ Write
    \/ LeaveLoop \/ Drain

Spec == Init /\ [][Next]_vars

\* The server task runs whenever it can go on without the client, and time
\* passes.  The client need not send or close anything.
FairSpec ==
    /\ Spec
    /\ WF_vars(Push) /\ WF_vars(Write) /\ WF_vars(Drain)
    /\ WF_vars(TimerExpires)

-----------------------------------------------------------------------------
(***************************************************************************)
(* Properties                                                              *)
(***************************************************************************)
\* Everything that is on the wire, being written or in the batch, in order.
Stream == wire \o batch \o buffer

Ids(s) == {s[i].id : i \in 1 .. Len(s)}
Ascending(s) == \A i, j \in 1 .. Len(s) : i < j => s[i].id < s[j].id

\* Replies leave in the order their URBs were executed, and none twice.
InOrder == Ascending(Stream)

\* A batch holds at most MaxBatch replies and Capacity bytes, and a batch that
\* is full is never kept over a read.
BatchBounded ==
    /\ Len(buffer) <= MaxBatch
    /\ bufsize <= Capacity
    /\ pc = "read" => Len(buffer) < MaxBatch

\* A batch is a run of consecutive seqnums, over the wrap-around included:
\* push compares with the seqnum that is last in the buffer.
BatchConsecutive ==
    \A i \in 1 .. Len(buffer) - 1 :
        buffer[i + 1].seqnum = (buffer[i].seqnum + 1) % Seqnums

\* The batch is timed exactly while it holds a reply, so a batch never starts
\* with the age of the batch before it.
TimedWhileFilled == (batch_start = "none") <=> (buffer = <<>>)

\* The batch is well-formed: bounded, consecutive and timed while it is filled.
BatchWellFormed == BatchBounded /\ BatchConsecutive /\ TimedWhileFilled

\* Each executed URB is in exactly one place: its reply is on the wire, being
\* written, in the batch, about to be pushed, or push has refused it.
Accounted ==
    LET current == IF pc = "push" THEN {reply.id} ELSE {}
    IN  pc # "closed" =>
            /\ Ids(Stream) \cup current \cup refused = 1 .. executed
            /\ Ids(Stream) \cap refused = {}
            /\ current \cap (Ids(Stream) \cup refused) = {}

\* batcher.rs on an early return of push: "Don't insert the current URB yet -
\* caller must flush first".  The reply of every executed URB is kept until it
\* is written.
NoReplyLost == refused = {}

\* batcher.rs: the batcher "flushes on: timer expiry (200 us max delay)".  A
\* batch whose time is over is flushed, whatever the client does.
ExpiredIsFlushed == (batch_start = "expired") ~> (buffer = <<>>)

=============================================================================
