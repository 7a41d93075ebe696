---------------------------- MODULE UrbBufferPool ---------------------------
(***************************************************************************)
(* The pool of URB buffers (pool.rs): buffers that several tasks acquire   *)
(* and drop, and the growth of record_urb, which pushes one buffer at a    *)
(* time while others are being returned.                                   *)
(*                                                                         *)
(* Of a buffer it matters whether it is blank (all zero).  The queue is an *)
(* ArrayQueue: push and pop are atomic, and a push fails when it is full.  *)
(***************************************************************************)
EXTENDS Naturals, Sequences

CONSTANTS Holder,               \* tasks that use the pool
          MinSize, MaxSize      \* min_size and max_size

ASSUME PoolAssumption == MinSize \in Nat /\ MaxSize \in Nat /\ MinSize <= MaxSize

VARIABLES
    queue,   \* PoolInner.queue: for each buffer, whether it is blank
    lent,    \* the buffer a task holds: none, blank (as acquired), stale
             \* (with the bytes of another URB) or used
    toAdd    \* buffers that the loop of record_urb still pushes

poolVars == <<queue, lent, toAdd>>

PoolTypeOK ==
    /\ queue \in Seq(BOOLEAN) /\ toAdd \in 0..MaxSize
    /\ lent \in [Holder -> {"none", "blank", "stale", "used"}]

PoolInit ==
    /\ queue = [i \in 1..MinSize |-> TRUE]
    /\ lent = [h \in Holder |-> "none"] /\ toAdd = 0

PushBack(blank) == queue' = IF Len(queue) < MaxSize THEN Append(queue, blank) ELSE queue

\* acquire takes &self and record_urb &mut self, so they exclude each other; an
\* empty pool allocates.
Acquire(h) ==
    /\ lent[h] = "none" /\ toAdd = 0
    /\ IF queue = <<>>
       THEN lent' = [lent EXCEPT ![h] = "blank"] /\ UNCHANGED queue
       ELSE /\ lent' = [lent EXCEPT ![h] = IF Head(queue) THEN "blank" ELSE "stale"]
            /\ queue' = Tail(queue)
    /\ UNCHANGED toAdd

Fill(h) ==
    /\ lent[h] \in {"blank", "stale"}
    /\ lent' = [lent EXCEPT ![h] = "used"]
    /\ UNCHANGED <<queue, toAdd>>

\* take: the buffer leaves the pool for good.
Take(h) ==
    /\ lent[h] \in {"blank", "stale", "used"}
    /\ lent' = [lent EXCEPT ![h] = "none"]
    /\ UNCHANGED <<queue, toAdd>>

\* Mutant: the buffer is pushed as it is.
MutReturn(h) ==
    /\ lent[h] \in {"blank", "used"}
    /\ lent' = [lent EXCEPT ![h] = "none"]
    /\ PushBack(lent[h] = "blank")
    /\ UNCHANGED toAdd

\* Drop: reset, and push.  It needs no access to the pool itself.
Return(h) ==
    /\ lent[h] \in {"blank", "stale", "used"}
    /\ lent' = [lent EXCEPT ![h] = "none"]
    /\ PushBack(TRUE)
    /\ UNCHANGED toAdd

\* record_urb, when a second has passed: desired comes from the rate, and the
\* length of the queue is read once.
RecordUrb(desired) ==
    /\ toAdd = 0 /\ desired > Len(queue)
    /\ toAdd' = desired - Len(queue)
    /\ UNCHANGED <<queue, lent>>

\* Its loop, which a push that fails ends.
Grow ==
    /\ toAdd > 0
    /\ toAdd' = IF Len(queue) < MaxSize THEN toAdd - 1 ELSE 0
    /\ PushBack(TRUE)
    /\ UNCHANGED lent

PoolNext ==
    \/ Grow \/ \E desired \in MinSize..MaxSize : RecordUrb(desired)
    \/ \E h \in Holder : Acquire(h) \/ Fill(h) \/ Take(h) \/ Return(h)

PoolSpec == PoolInit /\ [][PoolNext]_poolVars

-----------------------------------------------------------------------------
\* A task never gets a buffer with the bytes of an earlier URB in it, and the
\* pool never keeps more than max_size buffers, however growth and returns
\* interleave.
BuffersAreBlank ==
    /\ Len(queue) <= MaxSize /\ \A i \in 1..Len(queue) : queue[i]
    /\ \A h \in Holder : lent[h] # "stale"

=============================================================================
