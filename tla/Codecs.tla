------------------------------- MODULE Codecs -------------------------------
(***************************************************************************)
(* The two codecs by which a server tells of its devices, side by side:    *)
(* TXT records and descriptor trees.  They share no state.                 *)
(***************************************************************************)
EXTENDS TxtRecord, DescriptorTree

codecVars == <<txtVars, treeVars>>

CodecsSpec == TxtSpec /\ TreeSpec

\* What one end encodes the other decodes as the same: the devices in a TXT record
\* (encode_devices_txt, parseDevices), and the configurations in a descriptor tree
\* (get_descriptor_tree, parse_descriptor_tree) that arrives in one read and leaves
\* no class-specific descriptor out.  Of other trees the types alone are claimed.
DecodedIsEncoded ==
    /\ TxtTypeOK /\ SeenIsAdvertised
    /\ TreeTypeOK /\ TreeRoundTrips

=============================================================================
