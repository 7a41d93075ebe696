--------------------------- MODULE MCImportClient ---------------------------
(* Model-checking instances of ImportClient. *)
EXTENDS ImportClient, TLC

CONSTANTS d1

\* All clients ask for the same device.
SameDevice == [k \in Client |-> d1]

Symmetry == Permutations(Client) \cup Permutations(Conn)
=============================================================================
