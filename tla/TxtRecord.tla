------------------------------ MODULE TxtRecord ------------------------------
(***************************************************************************)
(* The devices in a TXT record of _usbip._tcp: what a server writes        *)
(* (encode_devices_txt of discovery.rs, or ServerAdvertiser.kt on Android) *)
(* and what ServerDiscovery.kt (parseDevices) makes of it.                 *)
(*                                                                         *)
(* A text is the sequence of its comma-separated parts: key=value pairs    *)
(* from the Rust server, one entry with colons from Android.  Of a name it *)
(* matters whether it has "vid=" in it, which is how the two formats are   *)
(* told apart; ServerAdvertiser removes the commas and colons of a name.   *)
(***************************************************************************)
EXTENDS Naturals, Sequences, SequenceOps

CONSTANTS Id, Bus,       \* vendor and product ids, bus ids of devices
          MaxDevices     \* bound on exportable devices

ASSUME TxtAssumption == MaxDevices \in Nat /\ Id \subseteq Nat \ {0} /\ "1-1" \in Bus

VARIABLES devices,      \* exportable devices
          advertised,   \* history: those devices when the record was made
          txt,          \* the record: its property devices, its single device
          seen          \* devices of the entry, at a phone

txtVars == <<devices, advertised, txt, seen>>

Device == [vid : Id, pid : Id, bus : Bus]
NoDevice == [vid |-> 0, pid |-> 0, bus |-> "1-1"]
Colons == ":"             \* the key of an entry with colons
ColonsVid == ":vid="      \* and of one whose name has vid= in it
NoRecord == [on |-> FALSE, text |-> <<>>, single |-> <<>>]

TxtTypeOK ==
    /\ devices \in Seq(Device) /\ advertised \in Seq(Device)
    /\ Len(devices) <= MaxDevices
    /\ seen \in Seq(Device \cup {NoDevice})

TxtInit ==
    /\ devices = <<>> /\ advertised = <<>>
    /\ txt = NoRecord /\ seen = <<>>

\* list_exportable_devices at the start of the server.
Plug(d) ==
    /\ Len(devices) < MaxDevices
    /\ devices' = Append(devices, d)
    /\ UNCHANGED <<advertised, txt, seen>>

\* encode_devices_txt: the name is made of the ids.
Pairs(d) ==
    <<[key |-> "vid", val |-> d.vid], [key |-> "pid", val |-> d.pid],
      [key |-> "bus", val |-> d.bus], [key |-> "n", val |-> d]>>

EncodeDevicesTxt(devs) == FlattenSeq([i \in 1..Len(devs) |-> Pairs(devs[i])])

\* MdnsAdvertiser::start: no property without devices.  It is called once.
RegisterRust ==
    /\ ~txt.on
    /\ advertised' = devices
    /\ txt' = [on |-> TRUE, text |-> EncodeDevicesTxt(devices), single |-> <<>>]
    /\ UNCHANGED <<devices, seen>>

\* ServerAdvertiser.register: the one device, in both ways, always at 1-1.
RegisterAndroid(key) ==
    /\ ~txt.on /\ Len(devices) = 1 /\ devices[1].bus = "1-1"
    /\ advertised' = devices
    /\ txt' = [on |-> TRUE, text |-> <<[key |-> key, val |-> devices[1]]>>,
               single |-> devices]
    /\ UNCHANGED <<devices, seen>>

\* unregister, or the end of the server.
Unregister ==
    /\ txt.on
    /\ txt' = NoRecord /\ advertised' = <<>> /\ seen' = <<>>
    /\ UNCHANGED devices

\* devicesStr.contains("vid=")
HasVid(text) == text[1].key # Colons

\* A device is complete when the next vid comes, or the text ends.
Complete(st) == st.vid # 0 /\ st.pid # 0

FlushDevice(st) ==
    IF Complete(st)
    THEN Append(st.list, [vid |-> st.vid, pid |-> st.pid, bus |-> st.bus])
    ELSE st.list

\* A pair; an entry with colons has no key that is known.
ParsePair(st, part) ==
    CASE part.key = "vid" ->
           [st EXCEPT !.list = FlushDevice(st), !.vid = part.val,
                      !.bus = IF Complete(st) THEN "1-1" ELSE st.bus]
      [] part.key = "pid" -> [st EXCEPT !.pid = part.val]
      [] part.key = "bus" -> [st EXCEPT !.bus = part.val]
      [] OTHER -> st

ParsedPairs(text) ==
    LET after[k \in 0..Len(text)] ==
            IF k = 0 THEN [list |-> <<>>, vid |-> 0, pid |-> 0, bus |-> "1-1"]
                     ELSE ParsePair(after[k - 1], text[k])
    IN  after[Len(text)]

\* Mutant: the device at the end of the text is left out.
MutKeyValueDevices(text) == ParsedPairs(text).list

KeyValueDevices(text) == FlushDevice(ParsedPairs(text))

ColonDevices(text) == [i \in 1..Len(text) |-> text[i].val]

\* parseDevices: the property devices in either format, or else the properties
\* vid, pid, bus and name, or else a placeholder.
ParseDevices(t) ==
    LET list == IF t.text = <<>> THEN <<>>
                ELSE IF HasVid(t.text) THEN KeyValueDevices(t.text)
                ELSE ColonDevices(t.text)
    IN  IF list # <<>> THEN list
        ELSE IF t.single # <<>> THEN t.single
        ELSE <<NoDevice>>

\* serviceResolved.
Resolve ==
    /\ txt.on
    /\ seen' = ParseDevices(txt)
    /\ UNCHANGED <<devices, advertised, txt>>

TxtNext ==
    \/ \E d \in Device : Plug(d)
    \/ RegisterRust \/ Unregister \/ Resolve
    \/ \E key \in {Colons, ColonsVid} : RegisterAndroid(key)

TxtSpec == TxtInit /\ [][TxtNext]_txtVars

-----------------------------------------------------------------------------
\* A phone sees, in this order, the ids and bus ids that the server advertised:
\* none is lost, doubled or mixed with a neighbour's, in either format.
SeenIsAdvertised ==
    seen \in {<<>>, IF advertised = <<>> THEN <<NoDevice>> ELSE advertised}

=============================================================================
