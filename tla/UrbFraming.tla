----------------------------- MODULE UrbFraming -----------------------------
(***************************************************************************)
(* Message boundaries on a connection after OP_REP_IMPORT.  There is no    *)
(* length prefix: each reader takes the size of a message from its fields  *)
(* (wire.rs, urb.rs, client.rs, UsbIpServer.kt, UsbIpClient.kt), and each  *)
(* writer decides on its own what it appends (reply.rs, usb_backend.rs,    *)
(* UsbIpServer.kt).  A stream is a sequence of 4-byte words, each with the *)
(* message it belongs to and its place there; data is in whole words.      *)
(* A reader blocks until the bytes it wants are there, so a read is one    *)
(* step that waits for all of them.  The Android server writes a reply at  *)
(* once; the Rust server pushes it into a batch, and whether a push keeps  *)
(* it, fills the batch or refuses it is left open here (UrbBatcher has     *)
(* how it is decided).                                                     *)
(***************************************************************************)
EXTENDS Naturals, Sequences, SequenceOps

CONSTANTS
    Clients,       \* which clients connect: wire, forwarding, android
    Servers,       \* which servers they meet: rust, android
    Shapes,        \* direction, URB_DIR_IN flag and length of the commands
    EntryWords,    \* the device entry
    TreeWords,     \* the descriptor tree
    PayloadWords,  \* what the Android client reads after the reply header
    TreeCommand,   \* the tree's third and fourth byte (bcdUSB) as a command
    MaxCommands        \* bound on the commands of a run

ASSUME FramingAssumption ==
    /\ Shapes \subseteq [direction : {0, 1}, in : BOOLEAN, length : Nat]
    /\ {EntryWords, TreeWords, PayloadWords, MaxCommands} \subseteq Nat

VARIABLES
    clientImpl, serverImpl,  \* the two implementations
    cpc, spc,        \* what each end is doing
    c2s, s2c,        \* words in transit
    sent,            \* commands the client wrote
    served,          \* commands as the server read them
    batched,         \* replies in the batch of the Rust server
    written,         \* replies the server wrote
    heard              \* messages as the client read them

framingVars == <<clientImpl, serverImpl, cpc, spc, c2s, s2c, sent, served, batched,
                 written, heard>>

(***************************************************************************)
(* Messages and words                                                      *)
(***************************************************************************)
HeaderWords == 2

\* HEADER_SIZE of UsbIpCmdSubmit (44 bytes and 4 of padding) and of
\* UsbIpRetSubmit, and UsbIpRetUnlink::SIZE.
BodyWords(command) ==
    CASE command = "CMD_SUBMIT" -> 12
      [] command = "RET_SUBMIT" -> 11
      [] command = "RET_UNLINK" -> 3
      [] OTHER -> 0

\* A message with `data` words after its body.
Words(m) ==
    [i \in 1..(HeaderWords + BodyWords(m.command) + m.data) |->
        [msg |-> m, at |-> i]]

Payload == [command |-> "PAYLOAD", id |-> 0]
PayloadStream ==
    [i \in 1..(EntryWords + TreeWords) |-> [msg |-> Payload, at |-> i]]

\* The command field of a header that starts at word w.
CommandAt(w) ==
    IF w.msg.command = "PAYLOAD"
    THEN IF w.at = EntryWords + 1 THEN TreeCommand ELSE "other"
    ELSE IF w.at = 1 THEN w.msg.command ELSE "other"

\* UsbIpCmdSubmit::is_in and UsbIpRetSubmit::has_data.
IsIn(m) == m.in

HasData(m) == m.status = 0 /\ m.direction # 0 /\ m.length > 0

\* Mutant: the buffer of an IN command is waited for as well.
MutWireData(m) ==
    CASE m.command = "CMD_SUBMIT" -> m.length
      [] m.command = "RET_SUBMIT" -> IF HasData(m) THEN m.length ELSE 0
      [] OTHER -> 0

\* Data that wire::read_message reads after the body of m.
WireData(m) ==
    CASE m.command = "CMD_SUBMIT" -> IF IsIn(m) THEN 0 ELSE m.length
      [] m.command = "RET_SUBMIT" -> IF HasData(m) THEN m.length ELSE 0
      [] OTHER -> 0

\* UsbIpServer.urbLoop takes the direction field.
AndroidData(m) == IF m.direction = 0 THEN m.length ELSE 0

\* The words a read of one message takes from s, Size(m) being its data.  The
\* fields of a body are those of the message its header belongs to.
Wanted(s, Size(_)) ==
    IF Len(s) < HeaderWords THEN HeaderWords
    ELSE LET command == CommandAt(s[1])
             fixed == HeaderWords + BodyWords(command)
         IN  IF Len(s) < fixed THEN fixed
             ELSE fixed + IF command \in {"CMD_SUBMIT", "RET_SUBMIT"}
                             /\ s[1].msg.command = command
                          THEN Size(s[1].msg) ELSE 0

CanRead(s, Size(_)) == Len(s) >= Wanted(s, Size)
Rest(s, n) == SubSeq(s, n + 1, Len(s))

-----------------------------------------------------------------------------
FramingInit ==
    /\ clientImpl \in Clients
    /\ serverImpl \in Servers
    /\ cpc = "payload"
    /\ spc = "reply"
    /\ c2s = <<>> /\ s2c = <<>>
    /\ sent = <<>> /\ served = <<>> /\ batched = <<>> /\ written = <<>> /\ heard = <<>>

\* handle_import of both servers: entry and descriptor tree follow the header.
ServerWritesPayload ==
    /\ spc = "reply"
    /\ s2c' = s2c \o PayloadStream
    /\ spc' = "urb"
    /\ UNCHANGED <<clientImpl, serverImpl, cpc, c2s, sent, served, batched, written,
                   heard>>

\* tcp_connect_and_import reads the entry; requestImport reads 4096 bytes; a
\* client that keeps to PROTOCOL.md reads the entry and the tree.
PayloadRead ==
    CASE clientImpl = "forwarding" -> EntryWords
      [] clientImpl = "android" -> PayloadWords
      [] OTHER -> EntryWords + TreeWords

ClientReadsPayload ==
    /\ cpc = "payload"
    /\ Len(s2c) >= PayloadRead
    /\ s2c' = Rest(s2c, PayloadRead)
    /\ cpc' = "urb"
    /\ UNCHANGED <<clientImpl, serverImpl, spc, c2s, sent, served, batched, written,
                   heard>>

\* A peer's CMD_SUBMIT: data follows when the direction is OUT.
ClientSubmits(shape) ==
    /\ clientImpl = "wire"
    /\ cpc = "urb"
    /\ Len(sent) < MaxCommands
    /\ LET m == [command |-> "CMD_SUBMIT", id |-> Len(sent) + 1,
                 direction |-> shape.direction, in |-> shape.in,
                 length |-> shape.length,
                 data |-> IF shape.direction = 0 THEN shape.length ELSE 0]
       IN  /\ sent' = Append(sent, m)
           /\ c2s' = c2s \o Words(m)
    /\ UNCHANGED <<clientImpl, serverImpl, cpc, spc, s2c, served, batched, written,
                   heard>>

ServerSize(m) == IF serverImpl = "rust" THEN WireData(m) ELSE AndroidData(m)

\* The URB loops skip an unknown command (Rust) or end (Android).
ServerReads ==
    /\ spc = "urb"
    /\ CanRead(c2s, ServerSize)
    /\ c2s' = Rest(c2s, Wanted(c2s, ServerSize))
    /\ IF CommandAt(c2s[1]) = "CMD_SUBMIT"
       THEN served' = Append(served, c2s[1].msg) /\ spc' = "execute"
       ELSE spc' = (IF serverImpl = "rust" THEN "urb" ELSE "closed")
            /\ UNCHANGED served
    /\ UNCHANGED <<clientImpl, serverImpl, cpc, s2c, sent, batched, written, heard>>

Executing == served[Len(served)]

\* execute_urb of LibusbBackend and executeUrb: an IN transfer returns the
\* data it read, an OUT transfer the length it wrote, an error neither.
TransfersIn ==
    IF serverImpl = "rust" THEN IsIn(Executing)
    ELSE Executing.direction # 0 \/ IsIn(Executing)

\* An IN transfer uses a buffer of at least 512 bytes (Android: a packet), so it
\* may return more than the command asked for.
MaxActual == IF TransfersIn THEN Executing.length + 1 ELSE Executing.length

\* Mutant: the request's buffer is appended to the reply of an OUT transfer.
MutRetSubmit(status, n) ==
    [command |-> "RET_SUBMIT", id |-> Executing.id,
     direction |-> Executing.direction, status |-> status, length |-> n,
     data |-> n]

\* serialize_reply_into, buildRetSubmit: the direction is echoed (by the Android
\* server as another value that is not 0, which is all that has_data asks).
RetSubmit(status, n) ==
    [command |-> "RET_SUBMIT", id |-> Executing.id,
     direction |-> Executing.direction, status |-> status, length |-> n,
     data |-> IF TransfersIn THEN n ELSE 0]

WriteReply(reply) ==
    /\ written' = Append(written, reply)
    /\ s2c' = s2c \o Words(reply)

\* urbLoop of the Android server: the reply is written and flushed.
ServerReplies ==
    /\ spc = "execute" /\ serverImpl = "android"
    /\ \E status \in {0, 1}, n \in 0..MaxActual :
         (status # 0 => n = 0) /\ WriteReply(RetSubmit(status, n))
    /\ spc' = "urb"
    /\ UNCHANGED <<clientImpl, serverImpl, cpc, c2s, sent, served, batched, heard>>

\* handle_urb_loop of the Rust server: push keeps the reply, or returns true,
\* with the reply in the batch or not.
ServerPushes ==
    /\ spc = "execute" /\ serverImpl = "rust"
    /\ \/ /\ \E status \in {0, 1}, n \in 0..MaxActual :
               (status # 0 => n = 0) /\ batched' = Append(batched, RetSubmit(status, n))
          /\ spc' \in {"urb", "write"}
       \/ spc' = "write" /\ UNCHANGED batched
    /\ UNCHANGED <<clientImpl, serverImpl, cpc, c2s, s2c, sent, served, written, heard>>

\* What flush returned is written, reply by reply.
ServerFlushes ==
    /\ spc = "write"
    /\ IF batched = <<>>
       THEN spc' = "urb" /\ UNCHANGED <<batched, written, s2c>>
       ELSE /\ WriteReply(Head(batched))
            /\ batched' = Tail(batched)
            /\ UNCHANGED spc
    /\ UNCHANGED <<clientImpl, serverImpl, cpc, c2s, sent, served, heard>>

\* Mutant: RET_SUBMIT is taken for 40 bytes, as UsbIpClient.kt does.
MutClientReads ==
    /\ cpc = "urb"
    /\ CanRead(s2c, WireData)
    /\ s2c' = Rest(s2c, Wanted(s2c, WireData) - 1)
    /\ heard' = Append(heard, s2c[1].msg)
    /\ UNCHANGED <<clientImpl, serverImpl, cpc, spc, c2s, sent, served, batched,
                   written>>

\* urb_forwarding_loop reads one message, and hands it to the virtual device
\* or skips it.
ClientReads ==
    /\ cpc = "urb"
    /\ CanRead(s2c, WireData)
    /\ s2c' = Rest(s2c, Wanted(s2c, WireData))
    /\ heard' = Append(heard, s2c[1].msg)
    /\ UNCHANGED <<clientImpl, serverImpl, cpc, spc, c2s, sent, served, batched,
                   written>>

FramingNext ==
    \/ ServerWritesPayload \/ ClientReadsPayload
    \/ \E shape \in Shapes : ClientSubmits(shape)
    \/ ServerReads \/ ServerReplies \/ ServerPushes \/ ServerFlushes \/ ClientReads

FramingSpec == FramingInit /\ [][FramingNext]_framingVars

-----------------------------------------------------------------------------
(***************************************************************************)
(* Properties                                                              *)
(***************************************************************************)
\* wire.rs: "so the two ends can never diverge again".  What each end has read
\* as messages are the messages the other end wrote, in their order.
InSync == IsPrefix(served, sent) /\ IsPrefix(heard, written)

\* Between messages, what is in transit to the client is made of whole replies:
\* the sizes the writer and the reader work out agree for every status,
\* direction and length.
WholeMessages ==
    cpc = "urb" =>
        s2c = FlattenSeq([i \in 1..(Len(written) - Len(heard)) |->
                             Words(written[Len(heard) + i])])

\* Framing keeps the ends together: what has been read, and what is in transit.
Framed == InSync /\ WholeMessages

\* Neither end waits for bytes that the other never sends: again and again, at the
\* latest when the client pauses, every command has been read, and so has every
\* reply that was written.  The Android server has then answered every command; of
\* the Rust server this cannot be said, whose replies may stay in the batch while
\* the client waits (ExpiredIsFlushed in UrbBatcher), or be refused.
CommandsServed ==
    []<>(/\ Len(served) = Len(sent) /\ Len(heard) = Len(written)
         /\ serverImpl = "android" => Len(heard) = Len(sent))

\* An import the server has granted gets the client into its URB phase.
ImportCompletes == (spc = "urb") ~> (cpc = "urb")

=============================================================================
