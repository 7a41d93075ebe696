------------------------------- MODULE MCParts ------------------------------
(***************************************************************************)
(* Parts that share no state: the calls of the USB stack, the message      *)
(* boundaries, the encrypted transport, the batch of replies, the stored   *)
(* configuration, the ports of the virtual controller, the buffer pool,    *)
(* the token bucket, and what a session of the Android app holds.          *)
(* A behaviour moves one of them, chosen at the start.                     *)
(***************************************************************************)
EXTENDS UsbBackend, Streams, HostParts, ShareResources

VARIABLE part   \* the part that moves

Host == <<vars, configVars, vhciVars, poolVars, bucketVars>>
partsVars == <<part, usbVars, streamVars, Host, shareVars>>

\* A reply that fits twice into a batch of three, one that fits once, and one
\* that is larger than a whole batch.
MCSizes == {1, 2, 4}

\* Commands whose direction and URB_DIR_IN flag agree.
MCShapes ==
    {s \in [direction : {0, 1}, in : BOOLEAN, length : 0..2] :
        s.in <=> s.direction = 1}

\* Two spellings of one device, and two devices: the other choices differ from
\* these by names only.
OneDevice == CHOOSE f \in [Busid -> UsbDevice] : \A b, c \in Busid : f[b] = f[c]
TwoDevices == CHOOSE f \in [Busid -> UsbDevice] : \A b, c \in Busid : b # c => f[b] # f[c]

PartsInit ==
    /\ part \in {"usb", "framing", "tunnel", "batch", "config", "vhci", "pool", "bucket",
                 "share"}
    /\ UsbInit /\ FramingInit /\ TunnelInit
    /\ Init /\ ConfigInit /\ VhciInit /\ PoolInit /\ BucketInit /\ ShareInit
    /\ deviceOf \in (IF part = "usb" THEN {OneDevice, TwoDevices} ELSE {OneDevice})
    \* What a part that does not move starts from is fixed.
    /\ part # "usb" => \A d \in UsbDevice : active[d] = Iface /\ native[d] = Iface
    /\ part # "framing" => serverImpl = "rust"

\* A step of a part that leaves the others alone.
Usb(A) == part = "usb" /\ A /\ UNCHANGED <<part, streamVars, Host, shareVars>>
InStream(name, A, other) ==
    part = name /\ A /\ UNCHANGED <<part, other, usbVars, Host, shareVars>>
InHost(name, A, other) ==
    part = name /\ A /\ UNCHANGED <<part, other, usbVars, streamVars, shareVars>>

PartsNext ==
    \/ Usb(UsbNext)
    \/ InStream("framing", FramingNext, tunnelVars)
    \/ InStream("tunnel", TunnelNext, framingVars)
    \/ InHost("batch", Next, <<configVars, vhciVars, poolVars, bucketVars>>)
    \/ InHost("config", ConfigNext, <<vars, vhciVars, poolVars, bucketVars>>)
    \/ InHost("vhci", VhciNext, <<vars, configVars, poolVars, bucketVars>>)
    \/ InHost("pool", PoolNext, <<vars, configVars, vhciVars, bucketVars>>)
    \/ InHost("bucket", BucketNext, <<vars, configVars, vhciVars, poolVars>>)
    \/ part = "share" /\ ShareNext /\ UNCHANGED <<part, usbVars, streamVars, Host>>

\* A thread that waits for no mutex goes on, a mutex that is free again and again
\* is obtained, and a transfer has a timeout; both ends of a connection keep
\* reading, and so do those of a tunnel.
PartsSpec ==
    /\ PartsInit /\ [][PartsNext]_partsVars
    /\ \A b \in Busid :
        WF_partsVars(Usb(RunsOn(b))) /\ SF_partsVars(Usb(LocksMutex(b)))
    /\ WF_partsVars(InStream("framing", ServerWritesPayload, tunnelVars))
    /\ WF_partsVars(InStream("framing", ClientReadsPayload, tunnelVars))
    /\ WF_partsVars(InStream("framing", ServerReads, tunnelVars))
    /\ WF_partsVars(InStream("framing", ServerReplies, tunnelVars))
    /\ WF_partsVars(InStream("framing", ServerPushes, tunnelVars))
    /\ WF_partsVars(InStream("framing", ServerFlushes, tunnelVars))
    /\ WF_partsVars(InStream("framing", ClientReads, tunnelVars))
    /\ \A s \in Side : WF_partsVars(InStream("tunnel", ExchangeStep(s), framingVars))

\* Where they move, what waits gets what it waits for: a call of the device
\* manager returns (UsbBackend), every command is read and every reply that was
\* written is read (UrbFraming), the key exchange ends (CryptoTunnel).
BlockingEnds ==
    /\ part = "usb" => CallsReturn
    /\ part = "framing" => CommandsServed
    /\ part = "tunnel" => TunnelOpens

=============================================================================
