--------------------------- MODULE DescriptorTree ---------------------------
(***************************************************************************)
(* The descriptor tree of an import: get_descriptor_tree writes it         *)
(* (usb_backend.rs; serialize_descriptor_tree writes the same), the loop   *)
(* of do_import reads it in chunks, and parse_descriptor_tree says when it *)
(* is whole.                                                               *)
(*                                                                         *)
(* The tree is a sequence of descriptors with their sizes in bytes, and a  *)
(* chunk ends between two of them.  A tree is shorter than the buffer of   *)
(* 512 bytes.  What a descriptor says is left out, but for the two fields  *)
(* the parser goes by: wTotalLength and bNumEndpoints.                     *)
(***************************************************************************)
EXTENDS Integers, Sequences, SequenceOps

CONSTANTS
    MaxConfigs, MaxInterfaces, MaxEndpoints,  \* bounds on a device
    Omitted     \* bytes of an interface's class-specific descriptors, which
                \* only a HID interface passes on

ASSUME TreeAssumption ==
    /\ MaxConfigs \in Nat /\ MaxInterfaces \in Nat /\ MaxEndpoints \in Nat
    /\ Omitted \in Nat /\ Omitted >= 9

VARIABLES
    dev,      \* the device: its configurations, each with its interfaces
    tree,     \* the tree on its way, <<>> before that
    got,      \* descriptors the client has read
    once,     \* history: it has read at most once
    client    \* reading, ready (goes on to create_device) or panicked

treeVars == <<dev, tree, got, once, client>>

\* The descriptors, each with its fields that matter, and their sizes.
DeviceDescriptor == [t |-> "device"]
ConfigDescriptor(total) == [t |-> "config", total |-> total]
InterfaceDescriptor(eps) == [t |-> "iface", eps |-> eps]
HidDescriptor == [t |-> "hid"]
EndpointDescriptor == [t |-> "ep"]

Size == [device |-> 18, config |-> 9, iface |-> 9, hid |-> 9, ep |-> 7]

Interface == [hid : BOOLEAN, eps : 0..MaxEndpoints, omitted : {0, Omitted}]

Bytes(i) == Size.iface + (IF i.hid THEN Size.hid ELSE 0) + i.omitted + Size.ep * i.eps

\* wTotalLength comes from the device, which counts what is omitted.
Total(ifaces) ==
    LET upto[k \in 0..Len(ifaces)] ==
            IF k = 0 THEN Size.config ELSE upto[k - 1] + Bytes(ifaces[k])
    IN  upto[Len(ifaces)]

TreeTypeOK ==
    /\ Len(dev) <= MaxConfigs
    /\ \A k \in 1..Len(dev) : dev[k] \in Seq(Interface)
    /\ got \in 0..Len(tree) /\ once \in BOOLEAN
    /\ client \in {"reading", "ready", "panicked"}

TreeInit ==
    /\ dev = <<>> /\ tree = <<>> /\ got = 0 /\ once = TRUE /\ client = "reading"

(***************************************************************************)
(* The writer                                                              *)
(***************************************************************************)
InterfaceTree(i) ==
    <<InterfaceDescriptor(i.eps)>>
        \o (IF i.hid THEN <<HidDescriptor>> ELSE <<>>)
        \o [k \in 1..i.eps |-> EndpointDescriptor]

ConfigTree(ifaces) ==
    <<ConfigDescriptor(Total(ifaces))>>
        \o FlattenSeq([k \in 1..Len(ifaces) |-> InterfaceTree(ifaces[k])])

DeviceTree == <<DeviceDescriptor>> \o FlattenSeq([k \in 1..Len(dev) |-> ConfigTree(dev[k])])

(***************************************************************************)
(* parse_descriptor_tree: a step for each descriptor.  st is where the     *)
(* parser is: top, config (before an interface), sub (in an interface) or  *)
(* none; left counts the bytes up to config_end, subs the rounds that the  *)
(* inner loop still has, and configs is what has been parsed.              *)
(***************************************************************************)
\* Mutant: a round for each endpoint, and none for the HID descriptor.
MutRounds(d) == d.eps

Rounds(d) == d.eps + 1

\* The inner loops that this descriptor is the end of.
Leave(p, d) ==
    LET out == p.st = "sub" /\ (p.subs = 0 \/ p.left < 2 \/ d.t \notin {"ep", "hid"})
        st == IF out THEN "config" ELSE p.st
    IN  [p EXCEPT !.st = IF st = "config" /\ p.left < Size.iface THEN "top" ELSE st]

InLast(configs, i) == [configs EXCEPT ![Len(configs)] = i]

ParseDescriptor(p, d, len) ==
    CASE p.st = "top" /\ d.t = "config" ->
           [st |-> "config", subs |-> 0,
            left |-> (IF d.total < len THEN d.total ELSE len) - Size.config,
            configs |-> Append(p.configs, <<>>)]
      [] p.st = "config" /\ d.t = "iface" ->
           [st |-> "sub", subs |-> Rounds(d), left |-> p.left - Size.iface,
            configs |-> InLast(p.configs,
                               Append(Last(p.configs), [hid |-> FALSE, eps |-> 0]))]
      [] p.st = "config" /\ d.t # "iface" -> [p EXCEPT !.st = "none"]
      [] p.st = "sub" ->
           LET ifaces == Last(p.configs)
               i == Last(ifaces)
               more == IF d.t = "hid" THEN [i EXCEPT !.hid = TRUE]
                                      ELSE [i EXCEPT !.eps = @ + 1]
           IN  [p EXCEPT !.subs = @ - 1, !.left = @ - Size[d.t],
                         !.configs = InLast(@, InLast(ifaces, more))]
      [] OTHER -> p

\* The bytes end.  An inner loop that expects more reads past them, which
\* panics, or has nothing to parse as an interface.
AtEnd(p) ==
    IF p.st = "sub" /\ p.subs > 0 /\ p.left >= 2 THEN "panic"
    ELSE IF p.st = "none" \/ (p.st # "top" /\ p.left >= Size.iface) THEN "none"
    ELSE "some"

Length(raw) ==
    LET upto[k \in 0..Len(raw)] == IF k = 0 THEN 0 ELSE upto[k - 1] + Size[raw[k].t]
    IN  upto[Len(raw)]

Parse(raw) ==
    LET len == Length(raw)
        after[k \in 1..Len(raw)] ==
            IF k = 1 THEN [st |-> "top", subs |-> 0, left |-> 0, configs |-> <<>>]
                     ELSE LET p == after[k - 1]
                              q == Leave(p, raw[k])
                          IN  ParseDescriptor(q, raw[k], len)
    IN  after[Len(raw)]

(***************************************************************************)
(* The steps                                                               *)
(***************************************************************************)
AddConfig ==
    /\ tree = <<>> /\ Len(dev) < MaxConfigs
    /\ dev' = Append(dev, <<>>)
    /\ UNCHANGED <<tree, got, once, client>>

AddInterface(i) ==
    /\ tree = <<>> /\ dev # <<>> /\ Len(Last(dev)) < MaxInterfaces
    /\ i.hid => i.omitted = 0
    /\ dev' = InLast(dev, Append(Last(dev), i))
    /\ UNCHANGED <<tree, got, once, client>>

\* OP_REP_IMPORT with the tree.
ServeTree ==
    /\ tree = <<>>
    /\ tree' = DeviceTree
    /\ UNCHANGED <<dev, got, once, client>>

\* A read of the loop in do_import.
ReadChunk(n) ==
    /\ client = "reading" /\ got + n <= Len(tree)
    /\ got' = got + n /\ once' = (got = 0)
    /\ LET end == AtEnd(Parse(SubSeq(tree, 1, got')))
       IN  client' = CASE end = "some" -> "ready"
                       [] end = "none" -> "reading"
                       [] end = "panic" -> "panicked"
    /\ UNCHANGED <<dev, tree>>

\* The server closes the connection: the loop ends with what it has.
ReadEnds ==
    /\ tree # <<>> /\ client = "reading"
    /\ client' = "ready"
    /\ UNCHANGED <<dev, tree, got, once>>

TreeNext ==
    \/ AddConfig \/ ServeTree \/ ReadEnds
    \/ \E i \in Interface : AddInterface(i)
    \/ \E n \in 1..Len(tree) : ReadChunk(n)

TreeSpec == TreeInit /\ [][TreeNext]_treeVars

-----------------------------------------------------------------------------
Seen(i) == [hid |-> i.hid, eps |-> i.eps]
Whole == [k \in 1..Len(dev) |-> [l \in 1..Len(dev[k]) |-> Seen(dev[k][l])]]
NothingOmitted == \A k \in 1..Len(dev) : \A l \in 1..Len(dev[k]) : dev[k][l].omitted = 0

\* "Inverse of parse_descriptor_tree": a tree that comes in one read and leaves
\* no class-specific descriptor out is parsed at once, and parsed as the
\* device's configurations, interfaces and endpoints.
TreeRoundTrips ==
    tree # <<>> /\ once /\ got = Len(tree) /\ NothingOmitted =>
        client = "ready" /\ Parse(tree).configs = Whole

\* "Read descriptor tree until fully parsed": the client goes on to
\* create_device with all of the tree.
TreeIsWhole == client = "ready" => got = Len(tree)

=============================================================================
