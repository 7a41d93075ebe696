---------------------------- MODULE CryptoTunnel ----------------------------
(***************************************************************************)
(* The encrypted transport (crypto_stream.rs, crypto.rs): the key exchange *)
(* of server_side and client_side, and the frames after it.                *)
(*                                                                         *)
(* A message is its length; a frame is its ciphertext, under a key.  The   *)
(* cipher is taken to be right: a frame is decrypted with its own key, and *)
(* with no other.                                                          *)
(***************************************************************************)
EXTENDS Naturals, Sequences, SequenceOps

CONSTANTS MaxMessage,    \* MAX_MESSAGE_SIZE
          Lengths,       \* lengths of messages
          MaxFrames      \* bound on the messages of a side

ASSUME TunnelAssumption == MaxMessage \in Nat /\ Lengths \subseteq 1..MaxMessage

Side == {"server", "client"}
Other(s) == CHOOSE o \in Side : o # s

VARIABLES
    step,    \* steps of the key exchange that are done; 3 for an open tunnel
    key,     \* the key a side has derived, named by the public keys it used
    pub,     \* sides whose public key is in the stream
    frames,  \* frames in the stream, by their writer
    out, in, \* messages written and read by a side
    ended    \* sides that read_message has given an error

tunnelVars == <<step, key, pub, frames, out, in, ended>>

TunnelTypeOK ==
    /\ step \in [Side -> 0..3] /\ key \in [Side -> SUBSET Side] /\ pub \subseteq Side
    /\ out \in [Side -> Seq(Lengths)] /\ in \in [Side -> Seq(Lengths)]
    /\ ended \subseteq Side

TunnelInit ==
    /\ step = [s \in Side |-> 0] /\ key = [s \in Side |-> {}] /\ pub = {}
    /\ frames = [s \in Side |-> <<>>]
    /\ out = [s \in Side |-> <<>>] /\ in = [s \in Side |-> <<>>] /\ ended = {}

\* Mutant: both sides wait for the other one's key.
MutExchange == <<"read", "write", "derive">>

\* "Send our pubkey FIRST": so do both.
Exchange == <<"write", "read", "derive">>

\* agree and derive_session_key: the key depends on both public keys.
SessionKey == pub

\* server_side and client_side.
ExchangeStep(s) ==
    /\ step[s] < 3
    /\ step' = [step EXCEPT ![s] = @ + 1]
    /\ \/ Exchange[step'[s]] = "write" /\ pub' = pub \cup {s} /\ UNCHANGED key
       \/ Exchange[step'[s]] = "read" /\ Other(s) \in pub /\ UNCHANGED <<pub, key>>
       \/ Exchange[step'[s]] = "derive" /\ key' = [key EXCEPT ![s] = SessionKey] /\ UNCHANGED pub
    /\ UNCHANGED <<frames, out, in, ended>>

\* encrypt_message: the length of the nonce, the nonce, the ciphertext, the tag.
Encrypted(n) == 4 + 12 + n + 16

\* Mutant: the limit leaves no room for what encryption adds.
MutEncryptedMax == MaxMessage

ENCRYPTED_MAX == MaxMessage + 20 + 4

WriteMessage(s, n) ==
    /\ step[s] = 3 /\ s \notin ended /\ Len(out[s]) < MaxFrames
    /\ frames' = [frames EXCEPT ![s] = Append(@, [len |-> Encrypted(n), key |-> key[s]])]
    /\ out' = [out EXCEPT ![s] = Append(@, n)]
    /\ UNCHANGED <<step, key, pub, in, ended>>

\* decrypt_in_place: the tag fits under one key only.
Decrypts(s, frame) == frame.key = key[s]

\* read_message: a frame that is too long, or under another key, is an error.
ReadMessage(s) ==
    LET o == Other(s)
        frame == Head(frames[o])
    IN  /\ step[s] = 3 /\ s \notin ended /\ frames[o] # <<>>
        /\ IF frame.len > ENCRYPTED_MAX \/ ~Decrypts(s, frame)
           THEN ended' = ended \cup {s} /\ UNCHANGED <<frames, in>>
           ELSE /\ frames' = [frames EXCEPT ![o] = Tail(@)]
                /\ in' = [in EXCEPT ![s] = Append(@, frame.len - Encrypted(0))]
                /\ UNCHANGED ended
        /\ UNCHANGED <<step, key, pub, out>>

TunnelNext ==
    \E s \in Side : \/ ExchangeStep(s) \/ ReadMessage(s)
                    \/ \E n \in Lengths : WriteMessage(s, n)

TunnelSpec == TunnelInit /\ [][TunnelNext]_tunnelVars

-----------------------------------------------------------------------------
\* What a side reads is what the other one wrote, in its order, and a message is
\* refused only for its length: both ends use one key, and what encryption adds
\* fits for every message that is at least 8 bytes shorter than MAX_MESSAGE_SIZE.
TunnelCarries ==
    \A s \in Side :
        /\ IsPrefix(in[s], out[Other(s)])
        /\ s \in ended => \E i \in 1..Len(out[Other(s)]) : out[Other(s)][i] + 8 > MaxMessage

\* "Maximum ciphertext size for a single encrypted USB/IP message": a message of
\* any length up to MAX_MESSAGE_SIZE is read.
TunnelCarriesAll == ended = {}

\* "avoids a chicken-and-egg deadlock where both sides block trying to read each
\* other's pubkey": the exchange ends.
TunnelOpens == <>(\A s \in Side : step[s] = 3)

=============================================================================
