----------------------------- MODULE TokenBucket ----------------------------
(***************************************************************************)
(* The bandwidth limit of a client (bandwidth.rs): one task that calls     *)
(* throttle before each write, and the clock.                              *)
(*                                                                         *)
(* Time is counted in ticks, and Rate tokens come with a tick; an amount   *)
(* and a deficit are multiples of Rate, so no rounding is needed.          *)
(***************************************************************************)
EXTENDS Naturals

CONSTANTS Rate,        \* bytes of a tick; an unlimited client has no bucket
          Second,      \* ticks of a second
          Amounts,     \* ticks' worth of bytes that a call asks for
          MaxTime      \* bound on the clock

ASSUME BucketAssumption ==
    Rate \in Nat \ {0} /\ Second \in Nat /\ Amounts \subseteq Nat /\ MaxTime \in Nat

VARIABLES now, tokens, last_refill,
          wake,        \* when the caller may write
          passed       \* bytes that throttle has let pass

bucketVars == <<now, tokens, last_refill, wake, passed>>

MaxTokens == Rate * Second

BucketTypeOK ==
    /\ now \in 0..MaxTime /\ tokens \in 0..MaxTokens /\ last_refill \in 0..now
    /\ wake \in Nat /\ passed \in Nat

\* The bucket starts full.
BucketInit ==
    /\ now = 0 /\ last_refill = 0 /\ tokens = MaxTokens
    /\ wake = 0 /\ passed = 0

Tick ==
    /\ now < MaxTime
    /\ now' = now + 1
    /\ UNCHANGED <<tokens, last_refill, wake, passed>>

\* Mutant: the bucket has no limit.
MutRefilled == tokens + (now - last_refill) * Rate

\* refill.
Refilled ==
    LET more == tokens + (now - last_refill) * Rate
    IN  IF more < MaxTokens THEN more ELSE MaxTokens

\* Mutant: what is in the bucket is not taken out for a call that has to wait.
MutConsume(amount) ==
    IF Refilled >= amount
    THEN tokens' = Refilled - amount /\ wake' = now
    ELSE tokens' = Refilled /\ wake' = now + (amount - Refilled) \div Rate

\* consume: the tokens, and the delay for what is missing.
Consume(amount) ==
    IF Refilled >= amount
    THEN tokens' = Refilled - amount /\ wake' = now
    ELSE tokens' = 0 /\ wake' = now + (amount - Refilled) \div Rate

\* throttle: the bytes count as passed when the delay is over.
Throttle(amount) ==
    /\ now >= wake
    /\ Consume(amount)
    /\ last_refill' = now
    /\ passed' = passed + amount
    /\ UNCHANGED now

BucketNext == Tick \/ \E n \in Amounts : Throttle(n * Rate)

BucketSpec == BucketInit /\ [][BucketNext]_bucketVars

-----------------------------------------------------------------------------
\* When the caller may write, no more has passed than one full bucket and twice
\* the rate: the time that is slept for a deficit is credited again by the next
\* refill, and by that one only.
RateIsBounded == now >= wake => passed <= MaxTokens + 2 * Rate * now

\* bandwidth.rs: "Create a new token bucket that allows `bytes_per_sec`".  When the
\* caller may write, no more has passed than one full bucket and the rate.
RateIsKept == now >= wake => passed <= MaxTokens + Rate * now

=============================================================================
