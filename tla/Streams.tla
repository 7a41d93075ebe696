------------------------------ MODULE Streams -------------------------------
(***************************************************************************)
(* The two kinds of stream between a device and its peer, side by side:    *)
(* messages framed as wire.rs does, and the encrypted transport.  They     *)
(* share no state.                                                         *)
(***************************************************************************)
EXTENDS UrbFraming, CryptoTunnel

streamVars == <<framingVars, tunnelVars>>

StreamsSpec == FramingSpec /\ TunnelSpec

\* What an end reads is what the other wrote: whole messages (UrbFraming), and in
\* a tunnel the same ones (CryptoTunnel), up to a message too long for its reader,
\* which ends it.
StreamsKept == Framed /\ TunnelTypeOK /\ TunnelCarries

=============================================================================
