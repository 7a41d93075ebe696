----------------------------- MODULE HostParts ------------------------------
(***************************************************************************)
(* Parts of a host, side by side: the batcher of replies, the stored       *)
(* configuration, the ports of the virtual host controller, and the limits *)
(* (the buffer pool, the token bucket).  They share no state.              *)
(***************************************************************************)
EXTENDS UrbBatcher, ConfigStore, VhciPorts, UrbBufferPool, TokenBucket

HostSpec == Spec /\ ConfigSpec /\ VhciSpec /\ PoolSpec /\ BucketSpec

\* The variables of the parts keep their types: among others the token bucket
\* never holds more than a second's worth, last_seqnum is a seqnum, and no port
\* outside 1..65535 is ever in the memory or in the file, whatever PUT /api/config
\* is sent.
PartsTypeOK == TypeOK /\ ConfigTypeOK /\ VhciTypeOK /\ PoolTypeOK /\ BucketTypeOK

\* The limits hold whatever the interleaving: the pool's size and the state of
\* its buffers (UrbBufferPool), and twice the rate for the bytes that a bucket lets
\* pass (TokenBucket: RateIsKept, the rate itself, does not hold).
LimitsHold == BuffersAreBlank /\ RateIsBounded

\* Imports never share a port of the virtual host controller, and one that failed
\* found no port or lost the one it found to another import (VhciPorts).
PortsAreOwn == DevidIsOwn /\ RefusalHasCause

=============================================================================
